---- MODULE Spec2Model ----
(***************************************************************************)
(* simplipy: the IR of a program, its control-transfer tables (ctf/ctf.py, *)
(* ctf/stf.py, ctf/helper.py), the small-step State machine                *)
(* (semantics/state.py) and the session surface (main.py).  A program is   *)
(* one of the fixtures below.  Under Spec the state machine starts in      *)
(* State(pgm) and every action is one call of State.step(); under HostSpec *)
(* every action is one request to the session surface.                     *)
(***************************************************************************)
EXTENDS Integers, Sequences, FiniteSets, TLC

(* one State object: the fixture it was built from, its fields and the     *)
(* exception its last step raised                                          *)
VARIABLES pid, pgm, ctfs, e, p, k, last_ctf_used, err

(* the session surface: the id of the session whose State object is held   *)
(* in the variables above (0 when there is none), the State objects of the *)
(* other sessions by id, the number of session ids given out, and the      *)
(* last response sent                                                      *)
VARIABLES cur, parked, issued, resp

host == <<cur, parked, issued, resp>>

(* the body of a module handed to the Visitor, with the line of each       *)
(* statement node, and the instruction index State.__init__ builds for it  *)
VARIABLES body, instr_map

(* the dict a caller of State.as_dict keeps *)
VARIABLE held

side == <<body, instr_map, held>>

vars == <<pid, pgm, ctfs, e, p, k, last_ctf_used, err, cur, parked, issued,
          resp, body, instr_map, held>>

(* bound on the number of environments a run may allocate *)
MaxEnvs == 6

GLOBAL_ENV_ID == 0

(* Block.parent of the top-level block (None) *)
NoStmt == 0

(* id of the top-level block: Visitor.block_stack[0] *)
TopBlock == 1

(***************************************************************************)
(* Values: Python ints and bools, Closure and Bottom (semantics/types.py). *)
(* A Bottom() is a fresh object; its identity is the environment and name  *)
(* it was created for.                                                     *)
(***************************************************************************)
IntV(n) == [t |-> "int", n |-> n]

BoolV(b) == [t |-> "bool", n |-> IF b THEN 1 ELSE 0]

Closure(lineno, formals, par_env_id) ==
    [t |-> "Closure", lineno |-> lineno, formals |-> formals,
     par_env_id |-> par_env_id]

Bottom(env_id, var) == [t |-> "Bottom", env_id |-> env_id, var |-> var]

IsBottom(v) == v.t = "Bottom"

IsClosure(v) == v.t = "Closure"

IsNum(v) == v.t \in {"int", "bool"}

Context(lineno, env_id) == [lineno |-> lineno, env_id |-> env_id]

(***************************************************************************)
(* Expressions (the ast nodes State.eval_expr accepts).                    *)
(***************************************************************************)
Const(n) == [t |-> "Constant", value |-> IntV(n)]

Name(id) == [t |-> "Name", id |-> id]

UnaryOp(op, operand) == [t |-> "UnaryOp", op |-> op, operand |-> operand]

BinOp(left, op, right) ==
    [t |-> "BinOp", op |-> op, left |-> left, right |-> right]

Compare(left, ops, comparators) ==
    [t |-> "Compare", left |-> left, ops |-> ops, comparators |-> comparators]

(***************************************************************************)
(* Statements (parse/statement.py), each with its one instruction          *)
(* (parse/instruction.py).  A statement is named by the line of its        *)
(* instruction; a block is named by its index in Program.blocks.           *)
(***************************************************************************)
PassStmt == [kind |-> "Pass"]

BreakStmt == [kind |-> "Break"]

ContinueStmt == [kind |-> "Continue"]

GlobalStmt(names) == [kind |-> "Global", vars |-> names]

NonlocalStmt(names) == [kind |-> "Nonlocal", vars |-> names]

ExpAssignStmt(var, expr) == [kind |-> "ExprAssign", var |-> var, expr |-> expr]

CallAssignStmt(var, func_var, func_args) ==
    [kind |-> "CallAssign", var |-> var, func_var |-> func_var,
     func_args |-> func_args]

IfStmt(expr, if_block, else_block) ==
    [kind |-> "If", expr |-> expr, if_block |-> if_block,
     else_block |-> else_block]

WhileStmt(expr, block) == [kind |-> "While", expr |-> expr, block |-> block]

DefStmt(func_var, formals, block) ==
    [kind |-> "Def", func_var |-> func_var, formals |-> formals,
     block |-> block]

RetStmt(expr) == [kind |-> "Ret", expr |-> expr]

(* the tree of a program: the statement lists of its blocks, in the order  *)
(* the Visitor creates them, and its statements by line                    *)
Program(blocks, stmt) == [blocks |-> blocks, stmt |-> stmt]


(***************************************************************************)
(* The programs.  Each is the IR that Visitor.parse_pgm builds for the     *)
(* source text shown; line numbers are the source lines.                   *)
(***************************************************************************)

(* S1:  1 x = 1 / 2 y = x + 2 / 3 pass *)
PgmS1 ==
    Program(<< <<1, 2, 3>> >>,
            (1 :> ExpAssignStmt("x", Const(1)))
         @@ (2 :> ExpAssignStmt("y", BinOp(Name("x"), "Add", Const(2))))
         @@ (3 :> PassStmt))

(* S2:  1 x = 5 / 2 if x > 0: / 3 y = 1 / 4 else: / 5 y = -1 / 6 pass *)
PgmS2 ==
    Program(<< <<1, 2, 6>>, <<3>>, <<5>> >>,
            (1 :> ExpAssignStmt("x", Const(5)))
         @@ (2 :> IfStmt(Compare(Name("x"), <<"Gt">>, <<Const(0)>>), 2, 3))
         @@ (3 :> ExpAssignStmt("y", Const(1)))
         @@ (5 :> ExpAssignStmt("y", UnaryOp("USub", Const(1))))
         @@ (6 :> PassStmt))

(* S3:  1 i = 0 / 2 s = 0 / 3 while i < 3: / 4 s = s + i / 5 i = i + 1 /   *)
(*      6 continue / 7 pass                                                *)
PgmS3 ==
    Program(<< <<1, 2, 3, 7>>, <<4, 5, 6>> >>,
            (1 :> ExpAssignStmt("i", Const(0)))
         @@ (2 :> ExpAssignStmt("s", Const(0)))
         @@ (3 :> WhileStmt(Compare(Name("i"), <<"Lt">>, <<Const(3)>>), 2))
         @@ (4 :> ExpAssignStmt("s", BinOp(Name("s"), "Add", Name("i"))))
         @@ (5 :> ExpAssignStmt("i", BinOp(Name("i"), "Add", Const(1))))
         @@ (6 :> ContinueStmt)
         @@ (7 :> PassStmt))

(* S4:  1 def make_adder(n): / 2 def add(x): / 3 r = x + n / 4 return r /  *)
(*      5 return add / 6 f = make_adder(10) / 7 y = f(5)                   *)
PgmS4 ==
    Program(<< <<1, 6, 7>>, <<2, 5>>, <<3, 4>> >>,
            (1 :> DefStmt("make_adder", <<"n">>, 2))
         @@ (2 :> DefStmt("add", <<"x">>, 3))
         @@ (3 :> ExpAssignStmt("r", BinOp(Name("x"), "Add", Name("n"))))
         @@ (4 :> RetStmt(Name("r")))
         @@ (5 :> RetStmt(Name("add")))
         @@ (6 :> CallAssignStmt("f", "make_adder", <<Const(10)>>))
         @@ (7 :> CallAssignStmt("y", "f", <<Const(5)>>)))

(* S5:  1 def fact(n): / 2 r = 1 / 3 if n > 1: / 4 t = fact(n - 1) /       *)
(*      5 r = n * t / 6 else: / 7 pass / 8 return r / 9 result = fact(3) / *)
(*      10 pass                                                            *)
PgmS5 ==
    Program(<< <<1, 9, 10>>, <<2, 3, 8>>, <<4, 5>>, <<7>> >>,
            (1 :> DefStmt("fact", <<"n">>, 2))
         @@ (2 :> ExpAssignStmt("r", Const(1)))
         @@ (3 :> IfStmt(Compare(Name("n"), <<"Gt">>, <<Const(1)>>), 3, 4))
         @@ (4 :> CallAssignStmt("t", "fact", <<BinOp(Name("n"), "Sub", Const(1))>>))
         @@ (5 :> ExpAssignStmt("r", BinOp(Name("n"), "Mult", Name("t"))))
         @@ (7 :> PassStmt)
         @@ (8 :> RetStmt(Name("r")))
         @@ (9 :> CallAssignStmt("result", "fact", <<Const(3)>>))
         @@ (10 :> PassStmt))

(* last top-level statement is an if:                                      *)
(*      1 x = 1 / 2 if x: / 3 y = 1 / 4 else: / 5 y = 2                    *)
PgmLastIf ==
    Program(<< <<1, 2>>, <<3>>, <<5>> >>,
            (1 :> ExpAssignStmt("x", Const(1)))
         @@ (2 :> IfStmt(Name("x"), 2, 3))
         @@ (3 :> ExpAssignStmt("y", Const(1)))
         @@ (5 :> ExpAssignStmt("y", Const(2))))

(* last top-level statement is a while:                                    *)
(*      1 i = 0 / 2 while i < 2: / 3 i = i + 1 / 4 continue                *)
PgmLastWhile ==
    Program(<< <<1, 2>>, <<3, 4>> >>,
            (1 :> ExpAssignStmt("i", Const(0)))
         @@ (2 :> WhileStmt(Compare(Name("i"), <<"Lt">>, <<Const(2)>>), 2))
         @@ (3 :> ExpAssignStmt("i", BinOp(Name("i"), "Add", Const(1))))
         @@ (4 :> ContinueStmt))

(* last top-level statement is a def:                                      *)
(*      1 x = 1 / 2 def f(): / 3 return x                                  *)
PgmLastDef ==
    Program(<< <<1, 2>>, <<3>> >>,
            (1 :> ExpAssignStmt("x", Const(1)))
         @@ (2 :> DefStmt("f", <<>>, 2))
         @@ (3 :> RetStmt(Name("x"))))

(* the body assigns to its parameter:                                      *)
(*      1 def f(a): / 2 a = a + 1 / 3 return a / 4 x = f(1) / 5 pass       *)
PgmParamAssign ==
    Program(<< <<1, 4, 5>>, <<2, 3>> >>,
            (1 :> DefStmt("f", <<"a">>, 2))
         @@ (2 :> ExpAssignStmt("a", BinOp(Name("a"), "Add", Const(1))))
         @@ (3 :> RetStmt(Name("a")))
         @@ (4 :> CallAssignStmt("x", "f", <<Const(1)>>))
         @@ (5 :> PassStmt))

(* the second call argument names an unbound variable:                     *)
(*      1 def f(a, b): / 2 return a / 3 x = f(1, zz) / 4 pass              *)
PgmBadArg ==
    Program(<< <<1, 3, 4>>, <<2>> >>,
            (1 :> DefStmt("f", <<"a", "b">>, 2))
         @@ (2 :> RetStmt(Name("a")))
         @@ (3 :> CallAssignStmt("x", "f", <<Const(1), Name("zz")>>))
         @@ (4 :> PassStmt))

(* a return at top level:   1 x = 1 / 2 return x / 3 pass *)
PgmTopRet ==
    Program(<< <<1, 2, 3>> >>,
            (1 :> ExpAssignStmt("x", Const(1)))
         @@ (2 :> RetStmt(Name("x")))
         @@ (3 :> PassStmt))

(* a local read before it is assigned:                                     *)
(*      1 def f(): / 2 y = x / 3 if x: / 4 x = 1 / 5 else: / 6 x = 2 /     *)
(*      7 return y / 8 z = f() / 9 pass                                    *)
PgmBottom ==
    Program(<< <<1, 8, 9>>, <<2, 3, 7>>, <<4>>, <<6>> >>,
            (1 :> DefStmt("f", <<>>, 2))
         @@ (2 :> ExpAssignStmt("y", Name("x")))
         @@ (3 :> IfStmt(Name("x"), 3, 4))
         @@ (4 :> ExpAssignStmt("x", Const(1)))
         @@ (6 :> ExpAssignStmt("x", Const(2)))
         @@ (7 :> RetStmt(Name("y")))
         @@ (8 :> CallAssignStmt("z", "f", <<>>))
         @@ (9 :> PassStmt))

(* nonlocal, global and break:                                             *)
(*      1 c = 0 / 2 def outer(): / 3 n = 0 / 4 def inc(): / 5 nonlocal n / *)
(*      6 global c / 7 n = n + 1 / 8 c = c + 1 / 9 return n / 10 while 1: /*)
(*      11 a = inc() / 12 if a > 1: / 13 break / 14 else: / 15 pass /      *)
(*      16 continue / 17 return n / 18 r = outer() / 19 pass               *)
PgmScopes ==
    Program(<< <<1, 2, 18, 19>>, <<3, 4, 10, 17>>, <<5, 6, 7, 8, 9>>,
               <<11, 12, 16>>, <<13>>, <<15>> >>,
            (1 :> ExpAssignStmt("c", Const(0)))
         @@ (2 :> DefStmt("outer", <<>>, 2))
         @@ (3 :> ExpAssignStmt("n", Const(0)))
         @@ (4 :> DefStmt("inc", <<>>, 3))
         @@ (5 :> NonlocalStmt({"n"}))
         @@ (6 :> GlobalStmt({"c"}))
         @@ (7 :> ExpAssignStmt("n", BinOp(Name("n"), "Add", Const(1))))
         @@ (8 :> ExpAssignStmt("c", BinOp(Name("c"), "Add", Const(1))))
         @@ (9 :> RetStmt(Name("n")))
         @@ (10 :> WhileStmt(Const(1), 4))
         @@ (11 :> CallAssignStmt("a", "inc", <<>>))
         @@ (12 :> IfStmt(Compare(Name("a"), <<"Gt">>, <<Const(1)>>), 5, 6))
         @@ (13 :> BreakStmt)
         @@ (15 :> PassStmt)
         @@ (16 :> ContinueStmt)
         @@ (17 :> RetStmt(Name("n")))
         @@ (18 :> CallAssignStmt("r", "outer", <<>>))
         @@ (19 :> PassStmt))

(* the callee is not a closure:   1 x = 1 / 2 y = x(2) / 3 pass *)
PgmNotCallable ==
    Program(<< <<1, 2, 3>> >>,
            (1 :> ExpAssignStmt("x", Const(1)))
         @@ (2 :> CallAssignStmt("y", "x", <<Const(2)>>))
         @@ (3 :> PassStmt))

(* wrong number of arguments:                                              *)
(*      1 def f(a): / 2 return a / 3 y = f() / 4 pass                      *)
PgmArity ==
    Program(<< <<1, 3, 4>>, <<2>> >>,
            (1 :> DefStmt("f", <<"a">>, 2))
         @@ (2 :> RetStmt(Name("a")))
         @@ (3 :> CallAssignStmt("y", "f", <<>>))
         @@ (4 :> PassStmt))

(* the caller's target is nonlocal and bound nowhere:                      *)
(*      1 def f(): / 2 return 1 / 3 def g(): / 4 nonlocal r / 5 r = f() /  *)
(*      6 return 2 / 7 z = g() / 8 pass                                    *)
PgmRetLookup ==
    Program(<< <<1, 3, 7, 8>>, <<2>>, <<4, 5, 6>> >>,
            (1 :> DefStmt("f", <<>>, 2))
         @@ (2 :> RetStmt(Const(1)))
         @@ (3 :> DefStmt("g", <<>>, 3))
         @@ (4 :> NonlocalStmt({"r"}))
         @@ (5 :> CallAssignStmt("r", "f", <<>>))
         @@ (6 :> RetStmt(Const(2)))
         @@ (7 :> CallAssignStmt("z", "g", <<>>))
         @@ (8 :> PassStmt))

(* a division by zero:   1 x = 0 / 2 y = 1 // x / 3 pass *)
PgmDivZero ==
    Program(<< <<1, 2, 3>> >>,
            (1 :> ExpAssignStmt("x", Const(0)))
         @@ (2 :> ExpAssignStmt("y", BinOp(Const(1), "FloorDiv", Name("x"))))
         @@ (3 :> PassStmt))

(* both call arguments raise, each its own error:                          *)
(*      1 def f(a, b): / 2 return a / 3 x = f(1 // 0, zz) / 4 pass         *)
PgmTwoBadArgs ==
    Program(<< <<1, 3, 4>>, <<2>> >>,
            (1 :> DefStmt("f", <<"a", "b">>, 2))
         @@ (2 :> RetStmt(Name("a")))
         @@ (3 :> CallAssignStmt("x", "f",
                     <<BinOp(Const(1), "FloorDiv", Const(0)), Name("zz")>>))
         @@ (4 :> PassStmt))

(* a name global in the inner function, local in the outer one and not yet *)
(* bound at top level:                                                     *)
(*      1 def outer(): / 2 c = 5 / 3 def inner(): / 4 global c / 5 c = 1 / *)
(*      6 return c / 7 r = inner() / 8 return r / 9 x = outer() / 10 pass  *)
PgmGlobalShadow ==
    Program(<< <<1, 9, 10>>, <<2, 3, 7, 8>>, <<4, 5, 6>> >>,
            (1 :> DefStmt("outer", <<>>, 2))
         @@ (2 :> ExpAssignStmt("c", Const(5)))
         @@ (3 :> DefStmt("inner", <<>>, 3))
         @@ (4 :> GlobalStmt({"c"}))
         @@ (5 :> ExpAssignStmt("c", Const(1)))
         @@ (6 :> RetStmt(Name("c")))
         @@ (7 :> CallAssignStmt("r", "inner", <<>>))
         @@ (8 :> RetStmt(Name("r")))
         @@ (9 :> CallAssignStmt("x", "outer", <<>>))
         @@ (10 :> PassStmt))

(* a break in a while that is the last top-level statement:                *)
(*      1 i = 0 / 2 while 1: / 3 if i: / 4 break / 5 else: / 6 pass /      *)
(*      7 i = 1 / 8 continue                                               *)
PgmBreakLastWhile ==
    Program(<< <<1, 2>>, <<3, 7, 8>>, <<4>>, <<6>> >>,
            (1 :> ExpAssignStmt("i", Const(0)))
         @@ (2 :> WhileStmt(Const(1), 2))
         @@ (3 :> IfStmt(Name("i"), 3, 4))
         @@ (4 :> BreakStmt)
         @@ (6 :> PassStmt)
         @@ (7 :> ExpAssignStmt("i", Const(1)))
         @@ (8 :> ContinueStmt))

(* a nonlocal name bound two activations up:                               *)
(*      1 def a(): / 2 n = 1 / 3 def b(): / 4 def c(): / 5 nonlocal n /    *)
(*      6 n = 2 / 7 return n / 8 r = c() / 9 return r / 10 s = b() /       *)
(*      11 return n / 12 x = a() / 13 pass                                 *)
PgmNonlocalTwoUp ==
    Program(<< <<1, 12, 13>>, <<2, 3, 10, 11>>, <<4, 8, 9>>, <<5, 6, 7>> >>,
            (1 :> DefStmt("a", <<>>, 2))
         @@ (2 :> ExpAssignStmt("n", Const(1)))
         @@ (3 :> DefStmt("b", <<>>, 3))
         @@ (4 :> DefStmt("c", <<>>, 4))
         @@ (5 :> NonlocalStmt({"n"}))
         @@ (6 :> ExpAssignStmt("n", Const(2)))
         @@ (7 :> RetStmt(Name("n")))
         @@ (8 :> CallAssignStmt("r", "c", <<>>))
         @@ (9 :> RetStmt(Name("r")))
         @@ (10 :> CallAssignStmt("s", "b", <<>>))
         @@ (11 :> RetStmt(Name("n")))
         @@ (12 :> CallAssignStmt("x", "a", <<>>))
         @@ (13 :> PassStmt))

(* a local name that the global environment binds as well:                 *)
(*      1 x = 1 / 2 def f(): / 3 x = 2 / 4 return x / 5 y = f() / 6 pass   *)
PgmLocalShadow ==
    Program(<< <<1, 2, 5, 6>>, <<3, 4>> >>,
            (1 :> ExpAssignStmt("x", Const(1)))
         @@ (2 :> DefStmt("f", <<>>, 2))
         @@ (3 :> ExpAssignStmt("x", Const(2)))
         @@ (4 :> RetStmt(Name("x")))
         @@ (5 :> CallAssignStmt("y", "f", <<>>))
         @@ (6 :> PassStmt))

(* a program that is final as soon as it is created:   1 pass *)
PgmPass == Program(<< <<1>> >>, (1 :> PassStmt))

(* a function assigns a name it declares nonlocal, which the global        *)
(* environment alone binds:                                                *)
(*      1 x = 1 / 2 def f(): / 3 nonlocal x / 4 x = 2 / 5 return x /       *)
(*      6 y = f() / 7 pass                                                 *)
PgmNonlocalGlobalOnly ==
    Program(<< <<1, 2, 6, 7>>, <<3, 4, 5>> >>,
            (1 :> ExpAssignStmt("x", Const(1)))
         @@ (2 :> DefStmt("f", <<>>, 2))
         @@ (3 :> NonlocalStmt({"x"}))
         @@ (4 :> ExpAssignStmt("x", Const(2)))
         @@ (5 :> RetStmt(Name("x")))
         @@ (6 :> CallAssignStmt("y", "f", <<>>))
         @@ (7 :> PassStmt))

(* the programs a State may be created for *)
Pgms ==
    <<PgmS1, PgmS2, PgmS3, PgmS4, PgmS5, PgmLastIf, PgmLastWhile, PgmLastDef,
      PgmParamAssign, PgmBadArg, PgmTopRet, PgmBottom, PgmScopes,
      PgmNotCallable, PgmArity, PgmRetLookup, PgmDivZero, PgmTwoBadArgs,
      PgmGlobalShadow, PgmBreakLastWhile, PgmNonlocalTwoUp,
      PgmLocalShadow, PgmPass, PgmNonlocalGlobalOnly>>

Pgm(i) == Pgms[i]

(***************************************************************************)
(* parse/parse.py: what the Visitor records while it builds the IR from    *)
(* the tree T of a program: Statement.parent and idx (Visitor._add_stmt),  *)
(* Block.parent (set by the If/While/Def statement that owns the block),   *)
(* Block.lexical, and the locals, nonlocals and globals of lexical blocks. *)
(***************************************************************************)

(* Statement.parent: the block that holds the statement *)
StmtParent(T, s) ==
    CHOOSE b \in DOMAIN T.blocks :
        \E i \in 1..Len(T.blocks[b]) : T.blocks[b][i] = s

(* Statement.idx, counted from 1 *)
StmtIdx(T, s) ==
    CHOOSE i \in 1..Len(T.blocks[StmtParent(T, s)]) :
        T.blocks[StmtParent(T, s)][i] = s

(* the blocks a composite statement owns *)
ChildBlocks(st) ==
    CASE st.kind = "If" -> {st.if_block, st.else_block}
      [] st.kind \in {"While", "Def"} -> {st.block}
      [] OTHER -> {}

(* Block.parent: the statement that owns the block, None at top level *)
BlockParent(T, b) ==
    IF \E s \in DOMAIN T.stmt : b \in ChildBlocks(T.stmt[s])
    THEN CHOOSE s \in DOMAIN T.stmt : b \in ChildBlocks(T.stmt[s])
    ELSE NoStmt

(* Block.lexical: the module block and every function body *)
Lexical(T, b) ==
    \/ b = TopBlock
    \/ \E s \in DOMAIN T.stmt : T.stmt[s].kind = "Def" /\ T.stmt[s].block = b

RECURSIVE ScopeStmts(_, _)
(* the statements the Visitor visits while block b is the innermost        *)
(* lexical block: those of b and of the if/while blocks nested in it       *)
ScopeStmts(T, b) ==
    UNION { {T.blocks[b][i]} \cup
            (LET st == T.stmt[T.blocks[b][i]]
             IN  IF st.kind \in {"If", "While"}
                 THEN UNION { ScopeStmts(T, c) : c \in ChildBlocks(st) }
                 ELSE {})
          : i \in 1..Len(T.blocks[b]) }

(* Block.locals as Visitor._update_locals fills it: assignment targets and *)
(* function names, except in the top-level block                           *)
BlockLocals(T, b) ==
    IF b = TopBlock THEN {}
    ELSE { T.stmt[s].var :
             s \in { t \in ScopeStmts(T, b) :
                       T.stmt[t].kind \in {"ExprAssign", "CallAssign"} } }
         \cup
         { T.stmt[s].func_var :
             s \in { t \in ScopeStmts(T, b) : T.stmt[t].kind = "Def" } }

(* Block.nonlocals (Visitor.visit_Nonlocal) *)
BlockNonlocals(T, b) ==
    UNION { T.stmt[s].vars :
              s \in { t \in ScopeStmts(T, b) : T.stmt[t].kind = "Nonlocal" } }

(* Block.globals (Visitor.visit_Global) *)
BlockGlobals(T, b) ==
    UNION { T.stmt[s].vars :
              s \in { t \in ScopeStmts(T, b) : T.stmt[t].kind = "Global" } }

(* Block: its statements and the fields the Visitor sets; the three name   *)
(* sets exist on lexical blocks only                                       *)
Block(T, b) ==
    [stmts |-> T.blocks[b],
     parent |-> BlockParent(T, b),
     lexical |-> Lexical(T, b),
     locals |-> IF Lexical(T, b) THEN BlockLocals(T, b) ELSE {},
     nonlocals |-> IF Lexical(T, b) THEN BlockNonlocals(T, b) ELSE {},
     globals |-> IF Lexical(T, b) THEN BlockGlobals(T, b) ELSE {}]

(* Visitor.parse_pgm: the IR of the tree T *)
parse_pgm(T) ==
    [blocks |-> [b \in DOMAIN T.blocks |-> Block(T, b)],
     stmt |-> [s \in DOMAIN T.stmt |->
                 [parent |-> StmtParent(T, s), idx |-> StmtIdx(T, s)]
                 @@ T.stmt[s]]]

(***************************************************************************)
(* Navigation in the IR P                                                  *)
(***************************************************************************)
Lines(P) == DOMAIN P.stmt

BlockIds(P) == DOMAIN P.blocks

(* Block.first() *)
BlockFirst(P, b) == P.blocks[b].stmts[1]

(* Statement.last() *)
StmtLast(P, s) ==
    LET last[stmt \in Lines(P)] ==
            LET st == P.stmt[stmt]
                blast(b) == last[P.blocks[b].stmts[Len(P.blocks[b].stmts)]]
            IN  CASE st.kind = "If" -> blast(st.else_block)
                  [] st.kind \in {"While", "Def"} -> blast(st.block)
                  [] OTHER -> stmt
    IN  last[s]

(* Block.last() *)
BlockLast(P, b) == StmtLast(P, P.blocks[b].stmts[Len(P.blocks[b].stmts)])

(* lookup_env: climb blk.parent.parent until blk.lexical *)
EnclLexical(P, b) ==
    LET climb[blk \in BlockIds(P)] ==
            IF P.blocks[blk].lexical THEN blk
            ELSE climb[P.stmt[P.blocks[blk].parent].parent]
    IN  climb[b]

(***************************************************************************)
(* ctf/helper.py, ctf/stf.py, ctf/ctf.py                                   *)
(***************************************************************************)

(* encl(WhileStmt, stmt); NoStmt stands for the SyntaxError *)
encl_while(P, s) ==
    LET encl[stmt \in Lines(P)] ==
            LET parent_stmt == P.blocks[P.stmt[stmt].parent].parent
            IN  IF parent_stmt = NoStmt THEN NoStmt
                ELSE IF P.stmt[parent_stmt].kind = "While" THEN parent_stmt
                ELSE encl[parent_stmt]
    IN  encl[s]

(* stf.next; NoStmt stands for an error *)
stf_next(P, s) ==
    LET next[stmt \in Lines(P) \cup {NoStmt}] ==
            IF stmt = NoStmt THEN NoStmt
            ELSE IF P.stmt[stmt].kind = "Continue" THEN encl_while(P, stmt)
            ELSE IF P.stmt[stmt].kind = "Break" THEN next[encl_while(P, stmt)]
            ELSE IF P.stmt[stmt].kind = "Ret" THEN NoStmt
            ELSE LET block == P.blocks[P.stmt[stmt].parent]
                     stmt_num == P.stmt[stmt].idx
                 IN  IF stmt_num = Len(block.stmts)
                     THEN IF block.parent = NoStmt
                          THEN stmt
                          ELSE next[block.parent]
                     ELSE block.stmts[stmt_num + 1]
    IN  next[s]

(* stf.true *)
stf_true(P, s) ==
    IF P.stmt[s].kind = "While" THEN BlockFirst(P, P.stmt[s].block)
    ELSE IF P.stmt[s].kind = "If" THEN BlockFirst(P, P.stmt[s].if_block)
    ELSE NoStmt

(* stf.false *)
stf_false(P, s) ==
    IF P.stmt[s].kind = "While" THEN stf_next(P, s)
    ELSE IF P.stmt[s].kind = "If" THEN BlockFirst(P, P.stmt[s].else_block)
    ELSE NoStmt

RECURSIVE visit_all_instrs(_, _)
(* the statements get_ctfs.visit_all_instrs reaches from block b *)
visit_all_instrs(P, b) ==
    UNION { {P.blocks[b].stmts[i]} \cup
            UNION { visit_all_instrs(P, c)
                    : c \in ChildBlocks(P.stmt[P.blocks[b].stmts[i]]) }
          : i \in 1..Len(P.blocks[b].stmts) }

(* NextLines with the next entries of If and While lines also emitted *)
NextLines_WithTests(P) ==
    { s \in visit_all_instrs(P, TopBlock) : P.stmt[s].kind # "Ret" }

(* the lines that get a next entry in the walk: Def and leaf statements    *)
(* other than Ret                                                          *)
NextLines(P) ==
    { s \in visit_all_instrs(P, TopBlock) :
        P.stmt[s].kind \notin {"If", "While", "Ret"} }

(* the lines that get a true and a false entry in the walk *)
TestLines(P) ==
    { s \in visit_all_instrs(P, TopBlock) : P.stmt[s].kind \in {"If", "While"} }

(* get_ctfs: the walk, then the fixed point at pgm.block.last() + 1 *)
get_ctfs(P) ==
    LET sentinel == BlockLast(P, TopBlock) + 1
    IN  [next |-> [l \in NextLines(P) \cup {sentinel} |->
                      IF l = sentinel THEN sentinel ELSE stf_next(P, l)],
         true |-> [l \in TestLines(P) |-> stf_true(P, l)],
         false |-> [l \in TestLines(P) |-> stf_false(P, l)]]

(***************************************************************************)
(* semantics/state.py: name resolution and expression evaluation.  A       *)
(* fallible operation returns [ok |-> TRUE, ...] or the name of the        *)
(* exception it raises, [ok |-> FALSE, err |-> ...].                       *)
(***************************************************************************)
Raise(exc) == [ok |-> FALSE, err |-> exc]

Ok(v) == [ok |-> TRUE, val |-> v]

(* create_new_env that skips an id *)
create_new_env_Gap(envs) ==
    (CHOOSE m \in DOMAIN envs : \A i \in DOMAIN envs : i <= m) + 2

(* LexicalMap.create_new_env: the id it allocates *)
create_new_env(envs) ==
    (CHOOSE m \in DOMAIN envs : \A i \in DOMAIN envs : i <= m) + 1

(* State.get_parent_chain for the frame top *)
get_parent_chain(top) ==
    LET chain[current \in DOMAIN e] ==
            <<current>> \o (IF current \in DOMAIN p
                            THEN chain[p[current]]
                            ELSE <<>>)
    IN  chain[top.env_id]

(* the first environment of the chain, from position i on, that binds var; *)
(* 0 when there is none                                                    *)
RECURSIVE first_with(_, _, _, _, _)
first_with(envs, chain, i, last, var) ==
    IF i > last THEN 0
    ELSE IF var \in DOMAIN envs[chain[i]] THEN i
    ELSE first_with(envs, chain, i + 1, last, var)

(* lookup_env with the nonlocal search run to the end of the chain, the    *)
(* global environment included                                             *)
lookup_env_NonlocalToGlobal(envs, top, var) ==
    LET blk == pgm.blocks[EnclLexical(pgm, pgm.stmt[top.lineno].parent)]
        chain == get_parent_chain(top)
        nl == first_with(envs, chain, 2, Len(chain), var)
        df == first_with(envs, chain, 1, Len(chain), var)
    IN  IF var \in blk.globals /\ var \in blk.nonlocals
        THEN Raise("ValueError")
        ELSE IF blk.parent = NoStmt \/ var \in blk.globals
        THEN [ok |-> TRUE, id |-> GLOBAL_ENV_ID]
        ELSE IF var \in blk.nonlocals
        THEN IF nl # 0 THEN [ok |-> TRUE, id |-> chain[nl]]
             ELSE Raise("LookupError")
        ELSE IF df # 0 THEN [ok |-> TRUE, id |-> chain[df]]
             ELSE Raise("LookupError")

(* lookup_env with the global rule applied only to names already bound in  *)
(* the global environment                                                  *)
lookup_env_GlobalIfBound(envs, top, var) ==
    LET blk == pgm.blocks[EnclLexical(pgm, pgm.stmt[top.lineno].parent)]
        chain == get_parent_chain(top)
        nl == first_with(envs, chain, 2, Len(chain) - 1, var)
        df == first_with(envs, chain, 1, Len(chain), var)
    IN  IF var \in blk.globals /\ var \in blk.nonlocals
        THEN Raise("ValueError")
        ELSE IF blk.parent = NoStmt
                \/ (var \in blk.globals /\ var \in DOMAIN envs[GLOBAL_ENV_ID])
        THEN [ok |-> TRUE, id |-> GLOBAL_ENV_ID]
        ELSE IF var \in blk.nonlocals
        THEN IF nl # 0 THEN [ok |-> TRUE, id |-> chain[nl]]
             ELSE Raise("LookupError")
        ELSE IF df # 0 THEN [ok |-> TRUE, id |-> chain[df]]
             ELSE Raise("LookupError")

(* lookup_env with the nonlocal search started at the frame's own           *)
(* environment and run to the end of the chain                             *)
lookup_env_NonlocalFromOwn(envs, top, var) ==
    LET blk == pgm.blocks[EnclLexical(pgm, pgm.stmt[top.lineno].parent)]
        chain == get_parent_chain(top)
        df == first_with(envs, chain, 1, Len(chain), var)
    IN  IF var \in blk.globals /\ var \in blk.nonlocals
        THEN Raise("ValueError")
        ELSE IF blk.parent = NoStmt \/ var \in blk.globals
        THEN [ok |-> TRUE, id |-> GLOBAL_ENV_ID]
        ELSE IF df # 0 THEN [ok |-> TRUE, id |-> chain[df]]
             ELSE Raise("LookupError")

(* State.lookup_env: the id of the environment it returns *)
lookup_env(envs, top, var) ==
    LET blk == pgm.blocks[EnclLexical(pgm, pgm.stmt[top.lineno].parent)]
        chain == get_parent_chain(top)
        nl == first_with(envs, chain, 2, Len(chain) - 1, var)
        df == first_with(envs, chain, 1, Len(chain), var)
    IN  IF var \in blk.globals /\ var \in blk.nonlocals
        THEN Raise("ValueError")
        ELSE IF blk.parent = NoStmt \/ var \in blk.globals
        THEN [ok |-> TRUE, id |-> GLOBAL_ENV_ID]
        ELSE IF var \in blk.nonlocals
        THEN IF nl # 0 THEN [ok |-> TRUE, id |-> chain[nl]]
             ELSE Raise("LookupError")
        ELSE IF df # 0 THEN [ok |-> TRUE, id |-> chain[df]]
             ELSE Raise("LookupError")

(* State.lookup_val: lookup_env(var)[var] *)
lookup_val(envs, top, var) ==
    LET r == lookup_env(envs, top, var)
    IN  IF ~r.ok THEN r
        ELSE IF var \notin DOMAIN envs[r.id] THEN Raise("KeyError")
        ELSE Ok(envs[r.id][var])

(* Truthy with every value taken as true *)
Truthy_Always(v) == TRUE

(* Python's truth value of a value: Closure and Bottom define neither      *)
(* __bool__ nor __len__                                                    *)
Truthy(v) == IF IsNum(v) THEN v.n # 0 ELSE TRUE

(* floor division and modulo, b # 0 *)
FloorDiv(a, b) == IF b > 0 THEN a \div b ELSE (0 - a) \div (0 - b)

Mod(a, b) == a - b * FloorDiv(a, b)

(* left == right in Python *)
ValEq(l, r) ==
    IF IsNum(l) /\ IsNum(r) THEN l.n = r.n
    ELSE IF IsNum(l) \/ IsNum(r) THEN FALSE
    ELSE l = r

(* the branches of eval_expr for ast.UnaryOp *)
eval_unary(op, val) ==
    CASE op = "Not" -> Ok(BoolV(~Truthy(val)))
      [] op \in {"USub", "UAdd"} /\ IsNum(val) ->
            Ok(IntV(IF op = "USub" THEN 0 - val.n ELSE val.n))
      [] op \in {"USub", "UAdd"} /\ ~IsNum(val) -> Raise("TypeError")
      [] OTHER -> Raise("ValueError")

(* the branches of eval_expr for ast.BinOp *)
eval_binop(op, left, right) ==
    IF op \notin {"Add", "Sub", "Mult", "FloorDiv", "Mod"}
    THEN Raise("ValueError")
    ELSE IF ~(IsNum(left) /\ IsNum(right)) THEN Raise("TypeError")
    ELSE IF op \in {"FloorDiv", "Mod"} /\ right.n = 0
    THEN Raise("ZeroDivisionError")
    ELSE Ok(IntV(CASE op = "Add" -> left.n + right.n
                   [] op = "Sub" -> left.n - right.n
                   [] op = "Mult" -> left.n * right.n
                   [] op = "FloorDiv" -> FloorDiv(left.n, right.n)
                   [] op = "Mod" -> Mod(left.n, right.n)))

(* one comparison of eval_expr for ast.Compare: its result, a BOOLEAN *)
eval_cmpop(op, left, right) ==
    IF op = "Eq" THEN Ok(ValEq(left, right))
    ELSE IF op = "NotEq" THEN Ok(~ValEq(left, right))
    ELSE IF op \notin {"Lt", "LtE", "Gt", "GtE"} THEN Raise("ValueError")
    ELSE IF ~(IsNum(left) /\ IsNum(right)) THEN Raise("TypeError")
    ELSE Ok(CASE op = "Lt" -> left.n < right.n
              [] op = "LtE" -> left.n <= right.n
              [] op = "Gt" -> left.n > right.n
              [] op = "GtE" -> left.n >= right.n)

RECURSIVE eval_expr(_, _, _)
RECURSIVE eval_compare(_, _, _, _, _)
(* State.eval_expr in the scope of frame top *)
eval_expr(envs, top, expr) ==
    CASE expr.t = "Constant" -> Ok(expr.value)
      [] expr.t = "Name" -> lookup_val(envs, top, expr.id)
      [] expr.t = "UnaryOp" ->
            LET val == eval_expr(envs, top, expr.operand)
            IN  IF ~val.ok THEN val ELSE eval_unary(expr.op, val.val)
      [] expr.t = "BinOp" ->
            LET left == eval_expr(envs, top, expr.left)
                right == eval_expr(envs, top, expr.right)
            IN  IF ~left.ok THEN left
                ELSE IF ~right.ok THEN right
                ELSE eval_binop(expr.op, left.val, right.val)
      [] expr.t = "Compare" ->
            LET left == eval_expr(envs, top, expr.left)
            IN  IF ~left.ok THEN left
                ELSE eval_compare(envs, top, left.val, expr, 1)
      [] OTHER -> Raise("TypeError")

(* the loop of eval_expr over zip(expr.ops, expr.comparators), from i on *)
eval_compare(envs, top, left, expr, i) ==
    IF i > Len(expr.ops) THEN Ok(BoolV(TRUE))
    ELSE LET right == eval_expr(envs, top, expr.comparators[i])
             result == eval_cmpop(expr.ops[i], left, right.val)
         IN  IF ~right.ok THEN right
             ELSE IF ~result.ok THEN result
             ELSE IF ~result.val THEN Ok(BoolV(FALSE))
             ELSE eval_compare(envs, top, right.val, expr, i + 1)

(***************************************************************************)
(* semantics/state.py: the State and State.step                            *)
(***************************************************************************)
Top == k[Len(k)]

(* is_final read off the bottom frame of the continuation *)
is_final_BottomFrame ==
    /\ k # <<>>
    /\ k[1].lineno \in DOMAIN ctfs.next
    /\ ctfs.next[k[1].lineno] = k[1].lineno

(* State.is_final *)
is_final ==
    /\ k # <<>>
    /\ Top.lineno \in DOMAIN ctfs.next
    /\ ctfs.next[Top.lineno] = Top.lineno

(* env[var] = val *)
Bind(env, var, val) ==
    [v \in DOMAIN env \cup {var} |-> IF v = var THEN val ELSE env[v]]

(* add_edge with every new environment hung under the global one *)
add_edge_ToGlobal(edges, child, parent) ==
    [c \in DOMAIN edges \cup {child} |->
        IF c = child THEN GLOBAL_ENV_ID ELSE edges[c]]

(* ParentChain.add_edge *)
add_edge(edges, child, parent) ==
    [c \in DOMAIN edges \cup {child} |->
        IF c = child THEN parent ELSE edges[c]]

(* self.k.top().lineno = self.ctfs[which][self.k.top().lineno] *)
Advance(stack, which) ==
    [stack EXCEPT ![Len(stack)].lineno = ctfs[which][@]]

(* DefClosure with the frame's line passed where its env_id belongs *)
DefClosure_LinenoAsParent(instr, top) ==
    Closure(BlockFirst(pgm, instr.block), instr.formals, top.lineno)

(* the closure a Def instruction at frame top builds *)
DefClosure(instr, top) ==
    Closure(BlockFirst(pgm, instr.block), instr.formals, top.env_id)

(* blk_locals with no name to pre-bind *)
blk_locals_None(closure) == {}

(* the names CallAssign binds to Bottom: blk.locals - nonlocals - globals  *)
(* of the block of the closure's entry line                                *)
blk_locals(closure) ==
    LET blk == pgm.blocks[pgm.stmt[closure.lineno].parent]
    IN  (blk.locals \ blk.nonlocals) \ blk.globals

(* the environment CallAssign fills: the first n formals bound to their    *)
(* values in order, then every name of bottoms bound to a Bottom()         *)
call_env(env_id, formals, vals, n, bottoms) ==
    [v \in {formals[i] : i \in 1..n} \cup bottoms |->
        IF v \in bottoms THEN Bottom(env_id, v)
        ELSE vals[CHOOSE i \in 1..n :
                    formals[i] = v /\ \A j \in (i + 1)..n : formals[j] # v]]

(* no response sent yet *)
NoResp ==
    [op |-> "none", sid |-> 0, status |-> 0, finished |-> FALSE,
     state |-> [e |-> <<>>, p |-> <<>>, k |-> <<>>, ctfs |-> <<>>]]

(* no index has been built *)
NotBuilt == [ok |-> FALSE, err |-> "None"]

(* as_dict has not been called *)
NoHeld == [taken |-> FALSE]

(* no module is being indexed and no caller keeps a dict *)
NoSide ==
    /\ body = <<>>
    /\ instr_map = NotBuilt
    /\ held = NoHeld

(* a State object on its own, outside any session *)
Standalone ==
    /\ cur = 0
    /\ parked = <<>>
    /\ issued = 0
    /\ resp = NoResp
    /\ NoSide

(* State.__init__, for a State object on its own *)
Init ==
    /\ pid \in 1..Len(Pgms)
    /\ pgm = parse_pgm(Pgm(pid))
    /\ ctfs = get_ctfs(pgm)
    /\ e = (GLOBAL_ENV_ID :> <<>>)
    /\ p = <<>>
    /\ k = <<Context(BlockFirst(pgm, TopBlock), GLOBAL_ENV_ID)>>
    /\ last_ctf_used = "None"
    /\ err = "None"
    /\ Standalone

(* step raises exc before it has changed anything *)
Fail(exc) ==
    /\ err' = exc
    /\ UNCHANGED <<pid, pgm, ctfs, e, p, k, last_ctf_used>>

(* the instruction step dispatches on exists *)
HasInstr == k # <<>> /\ Top.lineno \in Lines(pgm)

(* self.instr_map[self.k.top().lineno] *)
Instr == pgm.stmt[Top.lineno]

(* step: self.instr_map[self.k.top().lineno] raises *)
StepNoInstr ==
    /\ ~HasInstr
    /\ Fail(IF k = <<>> THEN "IndexError" ELSE "KeyError")

(* StepSimple that marks the line it leaves as done in the next table *)
StepSimple_MarksLine ==
    /\ HasInstr
    /\ Instr.kind \in {"Pass", "Break", "Continue", "Global", "Nonlocal"}
    /\ k' = Advance(k, "next")
    /\ ctfs' = [ctfs EXCEPT !.next[Top.lineno] = Top.lineno]
    /\ last_ctf_used' = "next"
    /\ err' = "None"
    /\ UNCHANGED <<pid, pgm, e, p>>

(* step on Pass, Break, Continue, Global, Nonlocal *)
StepSimple ==
    /\ HasInstr
    /\ Instr.kind \in {"Pass", "Break", "Continue", "Global", "Nonlocal"}
    /\ k' = Advance(k, "next")
    /\ last_ctf_used' = "next"
    /\ err' = "None"
    /\ UNCHANGED <<pid, pgm, ctfs, e, p>>

(* step on ExprAssign *)
StepExprAssign ==
    /\ HasInstr
    /\ Instr.kind = "ExprAssign"
    /\ LET env == lookup_env(e, Top, Instr.var)
           val == eval_expr(e, Top, Instr.expr)
       IN  IF ~env.ok THEN Fail(env.err)
           ELSE IF ~val.ok THEN Fail(val.err)
           ELSE /\ e' = [e EXCEPT ![env.id] = Bind(@, Instr.var, val.val)]
                /\ k' = Advance(k, "next")
                /\ last_ctf_used' = "next"
                /\ err' = "None"
                /\ UNCHANGED <<pid, pgm, ctfs, p>>

(* StepTest with the branch left open instead of taken from the value of   *)
(* the test                                                                *)
StepTest_AnyBranch ==
    /\ HasInstr
    /\ Instr.kind \in {"If", "While"}
    /\ LET val == eval_expr(e, Top, Instr.expr)
       IN  IF ~val.ok THEN Fail(val.err)
           ELSE \E ctf_to_use \in {"true", "false"} :
                   /\ k' = Advance(k, ctf_to_use)
                   /\ last_ctf_used' = ctf_to_use
                   /\ err' = "None"
                   /\ UNCHANGED <<pid, pgm, ctfs, e, p>>

(* step on the test of an if or a while *)
StepTest ==
    /\ HasInstr
    /\ Instr.kind \in {"If", "While"}
    /\ LET val == eval_expr(e, Top, Instr.expr)
           ctf_to_use == IF Truthy(val.val) THEN "true" ELSE "false"
       IN  IF ~val.ok THEN Fail(val.err)
           ELSE /\ k' = Advance(k, ctf_to_use)
                /\ last_ctf_used' = ctf_to_use
                /\ err' = "None"
                /\ UNCHANGED <<pid, pgm, ctfs, e, p>>

(* step on Def *)
StepDef ==
    /\ HasInstr
    /\ Instr.kind = "Def"
    /\ LET closure == DefClosure(Instr, Top)
           env == lookup_env(e, Top, Instr.func_var)
       IN  IF ~env.ok THEN Fail(env.err)
           ELSE /\ e' = [e EXCEPT ![env.id] = Bind(@, Instr.func_var, closure)]
                /\ k' = Advance(k, "next")
                /\ last_ctf_used' = "next"
                /\ err' = "None"
                /\ UNCHANGED <<pid, pgm, ctfs, p>>

(* the index of the first argument whose evaluation raises, 0 if none *)
FirstBad(vals) ==
    IF \E i \in DOMAIN vals : ~vals[i].ok
    THEN CHOOSE i \in DOMAIN vals :
            ~vals[i].ok /\ \A j \in 1..(i - 1) : vals[j].ok
    ELSE 0

(* ArgError with the error of the last argument that raises *)
ArgError_Last(vals) ==
    vals[CHOOSE i \in DOMAIN vals :
            ~vals[i].ok /\ \A j \in (i + 1)..Len(vals) : vals[j].ok].err

(* the exception that ends the loop over zip(formals, map(eval_expr, ...)) *)
ArgError(vals) == vals[FirstBad(vals)].err

(* RaiseCallError with the callee checked after create_new_env              *)
RaiseCallError_AfterAlloc(exc) ==
    /\ err' = exc
    /\ e' = (create_new_env(e) :> <<>>) @@ e
    /\ UNCHANGED <<pid, pgm, ctfs, p, k, last_ctf_used>>

(* the raise of the two checks CallAssign makes on its callee, ahead of    *)
(* create_new_env                                                          *)
RaiseCallError(exc) ==
    Fail(exc)

(* step on CallAssign *)
StepCallAssign ==
    /\ HasInstr
    /\ Instr.kind = "CallAssign"
    /\ Cardinality(DOMAIN e) < MaxEnvs
    /\ LET closure == lookup_val(e, Top, Instr.func_var)
       IN  IF ~closure.ok THEN Fail(closure.err)
           ELSE IF ~IsClosure(closure.val) THEN RaiseCallError("ValueError")
           ELSE IF Len(Instr.func_args) # Len(closure.val.formals)
           THEN RaiseCallError("TypeError")
           ELSE LET env_id == create_new_env(e)
                    e1 == (env_id :> <<>>) @@ e
                    formals == closure.val.formals
                    res == [i \in 1..Len(formals) |->
                               eval_expr(e1, Top, Instr.func_args[i])]
                    vals == [i \in 1..Len(formals) |-> res[i].val]
                    bad == FirstBad(res)
                IN  IF bad # 0
                    THEN /\ e' = [e1 EXCEPT ![env_id] =
                                    call_env(env_id, formals, vals, bad - 1, {})]
                         /\ err' = ArgError(res)
                         /\ UNCHANGED <<pid, pgm, ctfs, p, k, last_ctf_used>>
                    ELSE /\ e' = [e1 EXCEPT ![env_id] =
                                    call_env(env_id, formals, vals, Len(formals),
                                             blk_locals(closure.val))]
                         /\ p' = add_edge(p, env_id, closure.val.par_env_id)
                         /\ k' = Append(k, Context(closure.val.lineno, env_id))
                         /\ err' = "None"
                         /\ UNCHANGED <<pid, pgm, ctfs, last_ctf_used>>

(* RetTarget with the target resolved before the pop, from the callee's    *)
(* frame                                                                   *)
RetTarget_BeforePop(caller) ==
    lookup_env(e, Top, pgm.stmt[caller.lineno].var)

(* the environment Ret binds the result in: lookup_env(call_instr.var)     *)
(* once the frame caller is on top                                         *)
RetTarget(caller) ==
    lookup_env(e, caller, pgm.stmt[caller.lineno].var)

(* step on Ret *)
StepRet ==
    /\ HasInstr
    /\ Instr.kind = "Ret"
    /\ LET val == eval_expr(e, Top, Instr.expr)
           popped == SubSeq(k, 1, Len(k) - 1)
           caller == popped[Len(popped)]
           call_instr == pgm.stmt[caller.lineno]
           env == RetTarget(caller)
       IN  IF ~val.ok THEN Fail(val.err)
           ELSE IF popped = <<>>
           THEN /\ k' = popped
                /\ err' = "IndexError"
                /\ UNCHANGED <<pid, pgm, ctfs, e, p, last_ctf_used>>
           ELSE IF ~env.ok
           THEN /\ k' = popped
                /\ err' = env.err
                /\ UNCHANGED <<pid, pgm, ctfs, e, p, last_ctf_used>>
           ELSE /\ e' = [e EXCEPT ![env.id] = Bind(@, call_instr.var, val.val)]
                /\ k' = Advance(popped, "next")
                /\ err' = "None"
                /\ UNCHANGED <<pid, pgm, ctfs, p, last_ctf_used>>

(* State.step: the branch it takes *)
step ==
    \/ StepNoInstr
    \/ StepSimple
    \/ StepExprAssign
    \/ StepTest
    \/ StepDef
    \/ StepCallAssign
    \/ StepRet

Next ==
    \/ StepNoInstr /\ UNCHANGED <<host, side>>
    \/ StepSimple /\ UNCHANGED <<host, side>>
    \/ StepExprAssign /\ UNCHANGED <<host, side>>
    \/ StepTest /\ UNCHANGED <<host, side>>
    \/ StepDef /\ UNCHANGED <<host, side>>
    \/ StepCallAssign /\ UNCHANGED <<host, side>>
    \/ StepRet /\ UNCHANGED <<host, side>>

Spec == Init /\ [][Next]_vars

(* step is called again and again *)
FairSpec == Spec /\ WF_vars(Next)

(***************************************************************************)
(* main.py: the session surface.  A request carries the source text of a   *)
(* program; a source is modelled by what ast.parse makes of it: whether it *)
(* parses, and the tree it parses to.                                      *)
(***************************************************************************)

(* bound on the number of sessions created in a run *)
MaxSessions == 2

(* an else block that is absent (node.orelse is empty) *)
NoBlock == 0

(* a return without a value (node.value is None) *)
NoExpr == [t |-> "None"]

(* a call inside an expression *)
Call(func) == [t |-> "Call", func |-> func]

(* an assignment whose target is not a name *)
AssignStmt(target) == [kind |-> "Assign", target |-> target]

(* an augmented assignment, a node the Visitor has no visit method for *)
AugAssignStmt(var, expr) == [kind |-> "AugAssign", var |-> var, expr |-> expr]

(* an if without else:   1 x = 1 / 2 if x: / 3 pass *)
TreeIfNoElse ==
    Program(<< <<1, 2>>, <<3>> >>,
            (1 :> ExpAssignStmt("x", Const(1)))
         @@ (2 :> IfStmt(Name("x"), 2, NoBlock))
         @@ (3 :> PassStmt))

(* an unsupported statement:   1 x = 1 / 2 x += 1 *)
TreeUnsupported ==
    Program(<< <<1, 2>> >>,
            (1 :> ExpAssignStmt("x", Const(1)))
         @@ (2 :> AugAssignStmt("x", Const(1))))

(* a return without a value:   1 def f(): / 2 return / 3 pass *)
TreeReturnNone ==
    Program(<< <<1, 3>>, <<2>> >>,
            (1 :> DefStmt("f", <<>>, 2))
         @@ (2 :> RetStmt(NoExpr))
         @@ (3 :> PassStmt))

(* an assignment to an attribute:   1 x = 1 / 2 x.a = 2 *)
TreeBadTarget ==
    Program(<< <<1, 2>> >>,
            (1 :> ExpAssignStmt("x", Const(1)))
         @@ (2 :> AssignStmt("Attribute")))

(* a call inside an expression:                                            *)
(*      1 def f(): / 2 return 1 / 3 x = f() + 1                            *)
TreeCallInExpr ==
    Program(<< <<1, 3>>, <<2>> >>,
            (1 :> DefStmt("f", <<>>, 2))
         @@ (2 :> RetStmt(Const(1)))
         @@ (3 :> ExpAssignStmt("x", BinOp(Call("f"), "Add", Const(1)))))

(* a break outside any loop:   1 x = 1 / 2 break / 3 pass *)
TreeBreakOutside ==
    Program(<< <<1, 2, 3>> >>,
            (1 :> ExpAssignStmt("x", Const(1)))
         @@ (2 :> BreakStmt)
         @@ (3 :> PassStmt))

(* the source texts a request may carry: for a text ast.parse accepts, the *)
(* tree, and the number of the fixture when the tree is one of Pgms        *)
Source(syntax_ok, tree, fixture) ==
    [syntax_ok |-> syntax_ok, tree |-> tree, pid |-> fixture]

Sources ==
    <<Source(TRUE, PgmS1, 1),
      Source(TRUE, PgmTopRet, 11),
      Source(TRUE, PgmPass, 23),
      Source(FALSE, Program(<<>>, <<>>), 0),
      Source(TRUE, TreeIfNoElse, 0),
      Source(TRUE, TreeUnsupported, 0),
      Source(TRUE, TreeReturnNone, 0),
      Source(TRUE, TreeBadTarget, 0),
      Source(TRUE, TreeCallInExpr, 0),
      Source(TRUE, TreeBreakOutside, 0)>>

(* the programs a reset request may carry: one that builds, one that      *)
(* ast.parse rejects and one that the Visitor rejects; 0 stands for a      *)
(* request without a program                                               *)
ResetSources == {0, 1, 4, 5}

(* ast.parse(program_request.code) *)
ast_parse(source) ==
    IF source.syntax_ok THEN Ok(source.tree) ELSE Raise("SyntaxError")

RECURSIVE has_call(_)
(* Expression._validate: some node of the expression is a call *)
has_call(expr) ==
    CASE expr.t = "Call" -> TRUE
      [] expr.t = "UnaryOp" -> has_call(expr.operand)
      [] expr.t = "BinOp" -> has_call(expr.left) \/ has_call(expr.right)
      [] expr.t = "Compare" ->
            \/ has_call(expr.left)
            \/ \E i \in 1..Len(expr.comparators) : has_call(expr.comparators[i])
      [] OTHER -> FALSE

(* the exception the Visitor raises on the statement node st, or "None" *)
Rejects(st) ==
    CASE st.kind = "Assign" -> "NotImplementedError"
      [] st.kind = "ExprAssign" ->
            IF has_call(st.expr) THEN "AssertionError" ELSE "None"
      [] st.kind = "CallAssign" ->
            IF \E i \in 1..Len(st.func_args) : has_call(st.func_args[i])
            THEN "AssertionError" ELSE "None"
      [] st.kind = "While" ->
            IF has_call(st.expr) THEN "AssertionError" ELSE "None"
      [] st.kind = "If" ->
            IF has_call(st.expr) THEN "AssertionError"
            ELSE IF st.else_block = NoBlock THEN "ValueError"
            ELSE "None"
      [] st.kind = "Ret" ->
            IF st.expr = NoExpr THEN "NotImplementedError"
            ELSE IF has_call(st.expr) THEN "AssertionError"
            ELSE "None"
      [] st.kind \in {"Pass", "Break", "Continue", "Global", "Nonlocal", "Def"}
            -> "None"
      [] OTHER -> "NotImplementedError"

RECURSIVE TreeLast(_, _)
(* the last line the Visitor visits in block b of the tree T *)
TreeLast(T, b) ==
    LET s == T.blocks[b][Len(T.blocks[b])]
        st == T.stmt[s]
    IN  CASE st.kind = "If" ->
               IF st.else_block = NoBlock THEN TreeLast(T, st.if_block)
               ELSE TreeLast(T, st.else_block)
          [] st.kind \in {"While", "Def"} -> TreeLast(T, st.block)
          [] OTHER -> s

(* the exception Visitor.parse_pgm raises on the tree T, or "None": that   *)
(* of the first node it rejects; nodes are visited in line order, and the  *)
(* missing else of an if is noticed after the if block has been visited    *)
VisitError(T) ==
    LET bad == { s \in DOMAIN T.stmt : Rejects(T.stmt[s]) # "None" }
        at(s) == IF Rejects(T.stmt[s]) = "ValueError"
                 THEN 2 * TreeLast(T, T.stmt[s].if_block) + 1
                 ELSE 2 * s
    IN  IF bad = {} THEN "None"
        ELSE Rejects(T.stmt[CHOOSE s \in bad : \A o \in bad : at(s) <= at(o)])

(* the exception get_ctfs raises for the IR P, or "None": encl finds no    *)
(* while around a break or a continue                                      *)
CtfError(P) ==
    IF \E s \in Lines(P) : /\ P.stmt[s].kind \in {"Break", "Continue"}
                           /\ encl_while(P, s) = NoStmt
    THEN "SyntaxError"
    ELSE "None"

(* State(pgm), as a record of its fields *)
State(fixture, P) ==
    [pid |-> fixture,
     pgm |-> P,
     ctfs |-> get_ctfs(P),
     e |-> (GLOBAL_ENV_ID :> <<>>),
     p |-> <<>>,
     k |-> <<Context(BlockFirst(P, TopBlock), GLOBAL_ENV_ID)>>,
     last_ctf_used |-> "None",
     err |-> "None"]

(* tree = ast.parse(code); pgm = Visitor().parse_pgm(tree);                *)
(* state = State(pgm): the State, or the exception raised on the way       *)
Build(source) ==
    IF ~ast_parse(source).ok THEN ast_parse(source)
    ELSE IF VisitError(source.tree) # "None"
    THEN Raise(VisitError(source.tree))
    ELSE IF CtfError(parse_pgm(source.tree)) # "None"
    THEN Raise(CtfError(parse_pgm(source.tree)))
    ELSE Ok(State(source.pid, parse_pgm(source.tree)))

(* Build of every source *)
Builds == [src \in 1..Len(Sources) |-> Build(Sources[src])]

(* the State object held in the variables, as a record of its fields *)
Live ==
    [pid |-> pid, pgm |-> pgm, ctfs |-> ctfs, e |-> e, p |-> p, k |-> k,
     last_ctf_used |-> last_ctf_used, err |-> err]

(* the variables hold the State object s after the step *)
Load(s) ==
    /\ pid' = s.pid
    /\ pgm' = s.pgm
    /\ ctfs' = s.ctfs
    /\ e' = s.e
    /\ p' = s.p
    /\ k' = s.k
    /\ last_ctf_used' = s.last_ctf_used
    /\ err' = s.err

(* what the variables hold while no session's State object is in them *)
Blank == State(1, parse_pgm(Pgm(1)))

(* the registry: sessions: dict[str, State] *)
Sessions == IF cur = 0 THEN parked ELSE (cur :> Live) @@ parked

(* the registry is reg after the step; the State object of session cur     *)
(* stays in the variables as long as the session is registered             *)
Install(reg) ==
    /\ cur' = IF cur \in DOMAIN reg THEN cur ELSE 0
    /\ parked' = [s \in DOMAIN reg \ {cur} |-> reg[s]]
    /\ Load(IF cur \in DOMAIN reg THEN reg[cur] ELSE Blank)

(* the ids a request may name *)
SessionIds == 1..MaxSessions

(* LexicalMap.as_dict: what it shows for a value *)
display(v) ==
    CASE v.t = "Closure" ->
            [lineno |-> v.lineno, formals |-> v.formals,
             par_env_id |-> v.par_env_id]
      [] v.t = "Bottom" -> [t |-> "str", s |-> "skull"]
      [] OTHER -> v

(* State.as_dict, of the State object s *)
as_dict(s) ==
    [e |-> [id \in DOMAIN s.e |->
              [n \in DOMAIN s.e[id] |-> display(s.e[id][n])]],
     p |-> s.p,
     k |-> s.k,
     ctfs |-> s.ctfs]

(* a response without a snapshot *)
NoBody == [e |-> <<>>, p |-> <<>>, k |-> <<>>, ctfs |-> <<>>]

(* the response to request op on session sid *)
Response(op, sid, status, finished, state) ==
    [op |-> op, sid |-> sid, status |-> status, finished |-> finished,
     state |-> state]

(* the except clauses of create_program_session and reset_session *)
StatusOf(exc) == IF exc = "SyntaxError" THEN 400 ELSE 500

(* str(uuid4()) that repeats the id given out last *)
NewSessionId_Repeats == IF issued = 0 THEN issued + 1 ELSE issued

(* str(uuid4()): an id never given out before *)
NewSessionId == issued + 1

(* sessions[sid] = state that drops the session when the build failed *)
Register_DropOnFailure(reg, sid, b) ==
    IF b.ok THEN (sid :> b.val) @@ reg
    ELSE [s \in DOMAIN reg \ {sid} |-> reg[s]]

(* sessions[sid] = state, reached only when the build raised nothing *)
Register(reg, sid, b) ==
    IF b.ok THEN (sid :> b.val) @@ reg ELSE reg

(* create_program_session *)
create_program_session(src) ==
    LET b == Builds[src]
    IN  /\ b.ok => issued < MaxSessions
        /\ Install(Register(Sessions, NewSessionId, b))
        /\ issued' = IF b.ok THEN issued + 1 ELSE issued
        /\ resp' = IF b.ok
                   THEN Response("create", NewSessionId, 200, FALSE,
                                 as_dict(b.val))
                   ELSE Response("create", 0, StatusOf(b.err), FALSE, NoBody)

(* state = sessions[session_id]: the variables take the State object of    *)
(* session sid, the one they held goes back among the others               *)
Dispatch(sid) ==
    /\ sid \in DOMAIN parked
    /\ cur' = sid
    /\ parked' = [s \in DOMAIN Sessions \ {sid} |-> Sessions[s]]
    /\ Load(parked[sid])
    /\ UNCHANGED <<issued, resp>>

(* the session is not registered: HTTPException(404) *)
NotFound(op, sid) ==
    /\ sid \notin DOMAIN Sessions
    /\ resp' = Response(op, sid, 404, FALSE, NoBody)
    /\ UNCHANGED <<pid, pgm, ctfs, e, p, k, last_ctf_used, err, cur, parked,
                   issued>>

(* step_program: the session is missing; or step is not called, because   *)
(* is_final() is true or raises (k.top() on an empty stack); or step runs  *)
(* and the answer is made from what it raised or from the new state        *)
step_program(sid) ==
    \/ NotFound("step", sid)
    \/ /\ sid = cur
       /\ k = <<>> \/ is_final
       /\ resp' = IF k = <<>>
                  THEN Response("step", sid, 500, FALSE, NoBody)
                  ELSE Response("step", sid, 200, TRUE, as_dict(Live))
       /\ UNCHANGED <<pid, pgm, ctfs, e, p, k, last_ctf_used, err, cur,
                      parked, issued>>
    \/ /\ sid = cur
       /\ k # <<>>
       /\ ~is_final
       /\ step
       /\ resp' = IF err' # "None" \/ k' = <<>>
                  THEN Response("step", sid, 500, FALSE, NoBody)
                  ELSE Response("step", sid, 200, is_final', as_dict(Live'))
       /\ UNCHANGED <<cur, parked, issued>>

(* get_state *)
get_state(sid) ==
    \/ NotFound("get", sid)
    \/ /\ sid \in DOMAIN Sessions
       /\ resp' = Response("get", sid, 200, FALSE, as_dict(Sessions[sid]))
       /\ UNCHANGED <<pid, pgm, ctfs, e, p, k, last_ctf_used, err, cur,
                      parked, issued>>

(* delete_session without del sessions[session_id] *)
delete_session_KeepsEntry(sid) ==
    \/ NotFound("delete", sid)
    \/ /\ sid \in DOMAIN Sessions
       /\ resp' = Response("delete", sid, 200, FALSE, NoBody)
       /\ UNCHANGED <<pid, pgm, ctfs, e, p, k, last_ctf_used, err, cur,
                      parked, issued>>

(* delete_session *)
delete_session(sid) ==
    \/ NotFound("delete", sid)
    \/ /\ sid \in DOMAIN Sessions
       /\ Install([s \in DOMAIN Sessions \ {sid} |-> Sessions[s]])
       /\ resp' = Response("delete", sid, 200, FALSE, NoBody)
       /\ UNCHANGED issued

(* reset_session that keeps the State object of the session when the       *)
(* request carries no program                                              *)
reset_session_KeepsState(sid, src) ==
    \/ NotFound("reset", sid)
    \/ /\ sid \in DOMAIN Sessions
       /\ LET b == IF src = 0 THEN Ok(Sessions[sid]) ELSE Builds[src]
          IN  /\ Install(Register(Sessions, sid, b))
              /\ resp' = IF b.ok
                         THEN Response("reset", sid, 200, FALSE, as_dict(b.val))
                         ELSE Response("reset", sid, StatusOf(b.err), FALSE,
                                       NoBody)
       /\ UNCHANGED issued

(* reset_session; src = 0 stands for a request without a program *)
reset_session(sid, src) ==
    \/ NotFound("reset", sid)
    \/ /\ sid \in DOMAIN Sessions
       /\ LET b == IF src = 0
                   THEN Ok(State(Sessions[sid].pid, Sessions[sid].pgm))
                   ELSE Builds[src]
          IN  /\ Install(Register(Sessions, sid, b))
              /\ resp' = IF b.ok
                         THEN Response("reset", sid, 200, FALSE, as_dict(b.val))
                         ELSE Response("reset", sid, StatusOf(b.err), FALSE,
                                       NoBody)
       /\ UNCHANGED issued

(* the server starts with an empty registry *)
HostInit ==
    /\ cur = 0
    /\ parked = <<>>
    /\ issued = 0
    /\ resp = NoResp
    /\ pid = Blank.pid
    /\ pgm = Blank.pgm
    /\ ctfs = Blank.ctfs
    /\ e = Blank.e
    /\ p = Blank.p
    /\ k = Blank.k
    /\ last_ctf_used = Blank.last_ctf_used
    /\ err = Blank.err
    /\ NoSide

HostNext ==
    \/ \E src \in 1..Len(Sources) :
          create_program_session(src) /\ UNCHANGED side
    \/ \E sid \in SessionIds : Dispatch(sid) /\ UNCHANGED side
    \/ \E sid \in SessionIds : step_program(sid) /\ UNCHANGED side
    \/ \E sid \in SessionIds : get_state(sid) /\ UNCHANGED side
    \/ \E sid \in SessionIds : delete_session(sid) /\ UNCHANGED side
    \/ \E sid \in SessionIds : \E src \in ResetSources :
          reset_session(sid, src) /\ UNCHANGED side

(* the requests arrive one at a time: every handler is a coroutine without *)
(* an await, so it runs from its first line to its last on the event loop  *)
HostSpec == HostInit /\ [][HostNext]_vars

(***************************************************************************)
(* The instruction index (state.py, parse.py)                              *)
(***************************************************************************)

(* bound on the number of statement nodes of a module body, and on their   *)
(* lines                                                                   *)
MaxNodes == 3

(* a statement node of the ast: node.lineno and the statement *)
Node(lineno, st) == [lineno |-> lineno, stmt |-> st]

(* the nodes of a body: pass, x = 1 and x.a = 1 *)
Nodes ==
    { Node(l, PassStmt) : l \in 1..MaxNodes }
    \cup { Node(l, ExpAssignStmt("x", Const(1))) : l \in 1..MaxNodes }
    \cup { Node(l, AssignStmt("Attribute")) : l \in 1..MaxNodes }

(* the bodies ast.parse produces: the statements in the order of the text, *)
(* one after the other on a line or on later lines                         *)
Bodies ==
    { b \in UNION { [1..n -> Nodes] : n \in 1..MaxNodes } :
         \A i \in 1..(Len(b) - 1) : b[i].lineno <= b[i + 1].lineno }

(* visit_Module: the exception of the first node the Visitor rejects, or   *)
(* "None"                                                                  *)
visit_Module(b) ==
    LET bad == { i \in 1..Len(b) : Rejects(b[i].stmt) # "None" }
    IN  IF bad = {} THEN "None"
        ELSE Rejects(b[CHOOSE i \in bad : \A o \in bad : i <= o].stmt)

(* visit_Pass, visit_Assign: the instruction made for the i-th node of b,  *)
(* which carries node.lineno                                               *)
first_instr(b, i) == [idx |-> i, lineno |-> b[i].lineno, stmt |-> b[i].stmt]

RECURSIVE populate_instr_map(_, _)
(* State._populate_instr_map over the first n statements of the block:     *)
(* instr_map[stmt.first_instr().lineno] = stmt.first_instr(), in order     *)
populate_instr_map(b, n) ==
    IF n = 0 THEN <<>>
    ELSE (b[n].lineno :> first_instr(b, n)) @@ populate_instr_map(b, n - 1)

(* Visitor().parse_pgm(tree) and State(pgm), for the index *)
BuildIndex ==
    /\ instr_map = NotBuilt
    /\ body # <<>>
    /\ instr_map' = IF visit_Module(body) # "None"
                    THEN Raise(visit_Module(body))
                    ELSE Ok(populate_instr_map(body, Len(body)))
    /\ UNCHANGED <<pid, pgm, ctfs, e, p, k, last_ctf_used, err, host, body,
                   held>>

IndexInit ==
    /\ body \in Bodies
    /\ instr_map = NotBuilt
    /\ held = NoHeld
    /\ cur = 0
    /\ parked = <<>>
    /\ issued = 0
    /\ resp = NoResp
    /\ pid = Blank.pid
    /\ pgm = Blank.pgm
    /\ ctfs = Blank.ctfs
    /\ e = Blank.e
    /\ p = Blank.p
    /\ k = Blank.k
    /\ last_ctf_used = Blank.last_ctf_used
    /\ err = Blank.err

IndexNext == BuildIndex

IndexSpec == IndexInit /\ [][IndexNext]_vars

(***************************************************************************)
(* State.as_dict called on the State object itself (state.py)              *)
(***************************************************************************)

(* State.as_dict: "e" and "k" are objects built by the call, kept in held; *)
(* "p" is self.p.edges and "ctfs" is self.ctfs, the objects of the State,  *)
(* which the caller reads where the State keeps them; was records what the *)
(* dict showed when it was returned                                        *)
CallAsDict ==
    /\ held' = [taken |-> TRUE,
                e |-> as_dict(Live).e,
                k |-> as_dict(Live).k,
                was |-> as_dict(Live)]
    /\ held' # held
    /\ UNCHANGED <<pid, pgm, ctfs, e, p, k, last_ctf_used, err, host, body,
                   instr_map>>

(* what the caller reads in the dict it keeps *)
Seen == [e |-> held.e, p |-> p, k |-> held.k, ctfs |-> ctfs]

(* steps of a State, and calls of as_dict between them *)
SnapNext ==
    \/ Next
    \/ CallAsDict

SnapSpec == Init /\ [][SnapNext]_vars

(***************************************************************************)
(* Properties                                                              *)
(***************************************************************************)

(* C1: a step that fails with an error leaves the environment store, the   *)
(* parent chain and the continuation stack as they were before the step.   *)
C1_FailedStepChangesNothing ==
    [][err' # "None" => (e' = e /\ p' = p /\ k' = k)]_vars

(* the programs in which every while loop exits and every call returns *)
ExitingPgms == {1, 2, 3, 4, 5, 6, 7, 8, 13}

(* C2: for a program whose loops all exit and whose calls all return,      *)
(* calling step again and again from the initial state reaches a state     *)
(* with is_final true, whatever the kind of the last top-level statement.  *)
C2_ReachesFinal == <>(pid \notin ExitingPgms \/ is_final)

(* C3: the only line l with next[l] = l is the sentinel, the line after    *)
(* the last top-level line, which no instruction owns; so is_final is      *)
(* false whenever the program counter is the line of an instruction.       *)
C3_OnlySentinelIsFixedPoint ==
    /\ \A l \in DOMAIN ctfs.next :
          ctfs.next[l] = l =>
             /\ l = BlockLast(pgm, TopBlock) + 1
             /\ l \notin Lines(pgm)
    /\ HasInstr => ~is_final

(* C4: in scenario S4, when is_final is true envs[0].y is 15, the          *)
(* environment of the make_adder activation binds n to 10 and the closure  *)
(* bound to f in envs[0] has that environment as its parent_env_id.        *)
C4_S4FinalState ==
    (pid = 4 /\ is_final) =>
        /\ "y" \in DOMAIN e[0]
        /\ e[0]["y"] = IntV(15)
        /\ "f" \in DOMAIN e[0]
        /\ IsClosure(e[0]["f"])
        /\ e[0]["f"].par_env_id # 0
        /\ "n" \in DOMAIN e[e[0]["f"].par_env_id]
        /\ e[e[0]["f"].par_env_id]["n"] = IntV(10)

(* the step about to be taken is a CallAssign that pushes a frame *)
CallPushes == HasInstr /\ Instr.kind = "CallAssign" /\ Len(k') = Len(k) + 1

(* C5: after a successful CallAssign the new environment binds every       *)
(* formal to the value of its argument, and binds Bottom only to body      *)
(* locals (minus nonlocals and globals) that are not formals.              *)
C5_CallBindsFormals ==
    [][CallPushes =>
         LET closure == lookup_val(e, Top, Instr.func_var).val
             new == k'[Len(k')].env_id
         IN  /\ \A i \in 1..Len(closure.formals) :
                   /\ closure.formals[i] \in DOMAIN e'[new]
                   /\ e'[new][closure.formals[i]] =
                         eval_expr(e, Top, Instr.func_args[i]).val
             /\ \A v \in DOMAIN e'[new] :
                   IsBottom(e'[new][v]) =>
                      /\ v \in blk_locals(closure)
                      /\ \A i \in 1..Len(closure.formals) :
                            closure.formals[i] # v]_vars

(* the step about to be taken evaluates a Name expression whose value is   *)
(* Bottom: the right-hand side of an assignment whose target resolves, the *)
(* test of an if or a while, or the expression of a return                 *)
ReadsBottom ==
    /\ HasInstr
    /\ Instr.kind \in {"ExprAssign", "If", "While", "Ret"}
    /\ Instr.expr.t = "Name"
    /\ Instr.kind = "ExprAssign" => lookup_env(e, Top, Instr.var).ok
    /\ lookup_val(e, Top, Instr.expr.id).ok
    /\ IsBottom(lookup_val(e, Top, Instr.expr.id).val)

(* every Bottom is bound to the name and in the environment it was created *)
(* for: none has been copied elsewhere                                     *)
NoCopiedBottom ==
    \A id \in DOMAIN e : \A v \in DOMAIN e[id] :
        IsBottom(e[id][v]) => e[id][v] = Bottom(id, v)

(* C6: evaluating a Name whose value is Bottom fails with UnboundLocal,    *)
(* so no step copies a Bottom into another variable or branches on it.     *)
C6_BottomReadFails ==
    [][/\ ReadsBottom => (err' = "UnboundLocalError" /\ k' = k)
       /\ NoCopiedBottom']_vars

(* C7: the continuation stack is never empty and its bottom frame has      *)
(* env_id 0.                                                               *)
C7_StackNonempty == k # <<>> /\ k[1].env_id = GLOBAL_ENV_ID

RECURSIVE ReachesGlobal(_, _)
(* following parent edges from id reaches 0 within n hops *)
ReachesGlobal(id, n) ==
    \/ id = GLOBAL_ENV_ID
    \/ n > 0 /\ id \in DOMAIN p /\ ReachesGlobal(p[id], n - 1)

ParentForest ==
    /\ GLOBAL_ENV_ID \notin DOMAIN p
    /\ \A id \in DOMAIN e \ {GLOBAL_ENV_ID} :
          id \in DOMAIN p /\ ReachesGlobal(id, Cardinality(DOMAIN e))

(* C8: the parent map is a forest rooted at 0: env 0 has no parent, every  *)
(* other allocated env has a parent edge that is never rewritten, and its  *)
(* parent chain reaches 0.                                                 *)
C8_ParentForest ==
    [][/\ ParentForest'
       /\ \A c \in DOMAIN p : c \in DOMAIN p' /\ p'[c] = p[c]]_vars

(* C9: envs has key 0, and every env id used by a frame, by a closure      *)
(* stored in an environment, or by the parent map is a key of envs.        *)
C9_EnvIdsAllocated ==
    /\ GLOBAL_ENV_ID \in DOMAIN e
    /\ \A i \in 1..Len(k) : k[i].env_id \in DOMAIN e
    /\ \A id \in DOMAIN e : \A v \in DOMAIN e[id] :
          IsClosure(e[id][v]) => e[id][v].par_env_id \in DOMAIN e
    /\ \A c \in DOMAIN p : c \in DOMAIN e /\ p[c] \in DOMAIN e

(* a frame, a parent edge and a stored closure all name a non-global env *)
C9_Witness ==
    /\ Len(k) >= 2
    /\ p # <<>>
    /\ \E id \in DOMAIN e : \E v \in DOMAIN e[id] :
          IsClosure(e[id][v]) /\ e[id][v].par_env_id # GLOBAL_ENV_ID

(* C10: test lines are keys of true and false and not of next; lines of    *)
(* the other kinds except Ret are keys of next only; Ret lines are keys of *)
(* no table.                                                               *)
C10_CtfPartition ==
    \A l \in Lines(pgm) :
        LET kind == pgm.stmt[l].kind
        IN  /\ kind \in {"If", "While"} =>
                 /\ l \in DOMAIN ctfs.true
                 /\ l \in DOMAIN ctfs.false
                 /\ l \notin DOMAIN ctfs.next
            /\ kind \in {"Pass", "ExprAssign", "CallAssign", "Def", "Break",
                         "Continue", "Global", "Nonlocal"} =>
                 /\ l \in DOMAIN ctfs.next
                 /\ l \notin DOMAIN ctfs.true
                 /\ l \notin DOMAIN ctfs.false
            /\ kind = "Ret" =>
                 /\ l \notin DOMAIN ctfs.next
                 /\ l \notin DOMAIN ctfs.true
                 /\ l \notin DOMAIN ctfs.false

(* the tables of a program that has an instruction of every kind *)
C10_Witness ==
    /\ { pgm.stmt[l].kind : l \in Lines(pgm) } =
          {"Pass", "ExprAssign", "CallAssign", "If", "While", "Def", "Ret",
           "Break", "Continue", "Global", "Nonlocal"}
    /\ DOMAIN ctfs.true # {}
    /\ DOMAIN ctfs.next # {}

(* C11: on every lexical block of the IR the sets locals, nonlocals and    *)
(* globals are pairwise disjoint.                                          *)
C11_NameSetsDisjoint ==
    \A b \in BlockIds(pgm) :
        pgm.blocks[b].lexical =>
            /\ pgm.blocks[b].locals \cap pgm.blocks[b].nonlocals = {}
            /\ pgm.blocks[b].locals \cap pgm.blocks[b].globals = {}
            /\ pgm.blocks[b].nonlocals \cap pgm.blocks[b].globals = {}

(* C12: a call of step in a state where is_final is true raises no error   *)
(* and leaves the environment store, the parent chain and the continuation *)
(* unchanged.                                                              *)
C12_StepAtFinalIsNoOp ==
    [][is_final => (err' = "None" /\ e' = e /\ p' = p /\ k' = k)]_vars

(* the step about to be taken is a CallAssign that raises no error *)
CallSucceeds == HasInstr /\ Instr.kind = "CallAssign" /\ err' = "None"

(* C13: a successful CallAssign pushes exactly one frame; its env_id was   *)
(* not a key of envs before the step, its lineno is the closure's entry    *)
(* line, the parent map has the edge from the new id to the closure's      *)
(* parent_env_id, and the caller's frame keeps the line of the call.       *)
C13_CallPushesFreshFrame ==
    [][CallSucceeds =>
         LET closure == lookup_val(e, Top, Instr.func_var).val
             new == k'[Len(k')]
         IN  /\ Len(k') = Len(k) + 1
             /\ SubSeq(k', 1, Len(k)) = k
             /\ k'[Len(k)].lineno = Top.lineno
             /\ new.env_id \notin DOMAIN e
             /\ new.env_id \in DOMAIN e'
             /\ new.lineno = closure.lineno
             /\ new.lineno = BlockFirst(pgm, pgm.stmt[new.lineno].parent)
             /\ new.env_id \in DOMAIN p'
             /\ p'[new.env_id] = closure.par_env_id]_vars

(* a call of a closure made inside another activation has just pushed its  *)
(* frame: the pc is on the entry line of a function body, in a new and     *)
(* still untouched environment whose parent is not the global one          *)
C13_Witness ==
    /\ err = "None"
    /\ Len(k) >= 2
    /\ pgm.stmt[k[Len(k) - 1].lineno].kind = "CallAssign"
    /\ Top.lineno = BlockFirst(pgm, pgm.stmt[Top.lineno].parent)
    /\ Top.env_id = create_new_env(e) - 1
    /\ Top.env_id \in DOMAIN p
    /\ p[Top.env_id] # GLOBAL_ENV_ID

(* the step about to be taken is a Ret that raises no error *)
RetSucceeds == HasInstr /\ Instr.kind = "Ret" /\ err' = "None"

(* C14: a successful Ret removes the top frame and nothing else from the   *)
(* continuation; the value of the return expression, evaluated in the      *)
(* callee's frame, is bound to the target of the caller's CallAssign in    *)
(* the environment resolved from the caller's frame; and the caller's      *)
(* lineno goes from the call line c to next[c].                            *)
C14_RetBindsAndAdvances ==
    [][RetSucceeds =>
         LET caller == k[Len(k) - 1]
             val == eval_expr(e, Top, Instr.expr)
             var == pgm.stmt[caller.lineno].var
             env == lookup_env(e, caller, var)
         IN  /\ Len(k) >= 2
             /\ Len(k') = Len(k) - 1
             /\ SubSeq(k', 1, Len(k') - 1) = SubSeq(k, 1, Len(k) - 2)
             /\ pgm.stmt[caller.lineno].kind = "CallAssign"
             /\ val.ok
             /\ env.ok
             /\ var \in DOMAIN e'[env.id]
             /\ e'[env.id][var] = val.val
             /\ k'[Len(k')].env_id = caller.env_id
             /\ k'[Len(k')].lineno = ctfs.next[caller.lineno]]_vars

(* a call made inside an activation has returned a number the callee       *)
(* computed from its own parameter: the caller, itself a callee, is on the *)
(* line after the call and its target holds the value                      *)
C14_Witness ==
    /\ err = "None"
    /\ Len(k) >= 2
    /\ Cardinality(DOMAIN e) > Len(k)
    /\ \E c \in Lines(pgm) :
          /\ pgm.stmt[c].kind = "CallAssign"
          /\ ctfs.next[c] = Top.lineno
          /\ ctfs.next[c] # c
          /\ pgm.stmt[c].var \in DOMAIN e[Top.env_id]
          /\ IsNum(e[Top.env_id][pgm.stmt[c].var])

(* the closures bound in the environment store envs *)
ClosuresIn(envs) ==
    { envs[id][v] : <<id, v>> \in
        { iv \in UNION { {<<i, w>> : w \in DOMAIN envs[i]} : i \in DOMAIN envs } :
            IsClosure(envs[iv[1]][iv[2]]) } }

(* C15: a Def step binds a closure whose parent_env_id is the env_id of    *)
(* the top frame and whose entry line is the first line of the function    *)
(* body; every closure found in the store after any step either was in the *)
(* store before the step with the same fields or is the one this Def step  *)
(* has made, so returns and copies leave the fields as they are.           *)
C15_ClosureCapture ==
    [][LET made == Closure(pgm.blocks[Instr.block].stmts[1], Instr.formals,
                           Top.env_id)
       IN  /\ (HasInstr /\ Instr.kind = "Def" /\ err' = "None") =>
                 /\ lookup_env(e, Top, Instr.func_var).ok
                 /\ e'[lookup_env(e, Top, Instr.func_var).id][Instr.func_var]
                       = made
           /\ \A c \in ClosuresIn(e') \ ClosuresIn(e) :
                 HasInstr /\ Instr.kind = "Def" /\ c = made]_vars

(* the closure of an inner function, made in an activation that has        *)
(* returned, is bound both in that activation's environment and, as a      *)
(* copy, in the global one                                                 *)
C15_Witness ==
    /\ Len(k) = 1
    /\ \E v \in DOMAIN e[GLOBAL_ENV_ID] :
          /\ IsClosure(e[GLOBAL_ENV_ID][v])
          /\ e[GLOBAL_ENV_ID][v].par_env_id # GLOBAL_ENV_ID
          /\ \E w \in DOMAIN e[e[GLOBAL_ENV_ID][v].par_env_id] :
                e[e[GLOBAL_ENV_ID][v].par_env_id][w] = e[GLOBAL_ENV_ID][v]

(* the step about to be taken is a CallAssign whose callee is a closure of *)
(* the right arity, so that its arguments are evaluated                    *)
CallEvaluatesArgs ==
    /\ HasInstr
    /\ Instr.kind = "CallAssign"
    /\ lookup_val(e, Top, Instr.func_var).ok
    /\ IsClosure(lookup_val(e, Top, Instr.func_var).val)
    /\ Len(Instr.func_args) = Len(lookup_val(e, Top, Instr.func_var).val.formals)

(* C16: a CallAssign evaluates its arguments from index 0 up, each in the  *)
(* caller's frame and parent chain: when some argument raises, the step    *)
(* raises the error of the lowest-index one that does; when none raises,   *)
(* every formal the body does not assign holds the value its argument has  *)
(* in the caller's scope.                                                  *)
C16_ArgsInOrderInCallerScope ==
    [][CallEvaluatesArgs =>
         LET closure == lookup_val(e, Top, Instr.func_var).val
             n == Len(Instr.func_args)
             res == [i \in 1..n |-> eval_expr(e, Top, Instr.func_args[i])]
             new == k'[Len(k')].env_id
         IN  IF \E i \in 1..n : ~res[i].ok
             THEN /\ k' = k
                  /\ \E i \in 1..n :
                        /\ ~res[i].ok
                        /\ \A j \in 1..(i - 1) : res[j].ok
                        /\ err' = res[i].err
             ELSE /\ err' = "None"
                  /\ Len(k') = Len(k) + 1
                  /\ \A i \in 1..n :
                        closure.formals[i] \notin blk_locals(closure) =>
                           e'[new][closure.formals[i]] = res[i].val]_vars

(* a call with two arguments that both raise, each another error, has      *)
(* failed with the error of the first                                      *)
C16_Witness ==
    /\ HasInstr
    /\ Instr.kind = "CallAssign"
    /\ Len(Instr.func_args) = 2
    /\ ~eval_expr(e, Top, Instr.func_args[1]).ok
    /\ ~eval_expr(e, Top, Instr.func_args[2]).ok
    /\ eval_expr(e, Top, Instr.func_args[1]).err
          # eval_expr(e, Top, Instr.func_args[2]).err
    /\ err = eval_expr(e, Top, Instr.func_args[1]).err
    /\ Cardinality(DOMAIN e) >= 2

(* C17: a step removes no environment, no binding and no parent edge and   *)
(* re-points no edge; the env ids are exactly 0..n and only a CallAssign   *)
(* adds one, the next integer; the continuation changes by the top frame's *)
(* lineno, by one frame pushed at a CallAssign or by one frame popped at a *)
(* Ret; a frame keeps its env_id, and a frame below the top keeps its      *)
(* lineno except the caller's frame at Ret.                                *)
C17_AppendOnly ==
    [][/\ DOMAIN e \subseteq DOMAIN e'
       /\ \A id \in DOMAIN e : DOMAIN e[id] \subseteq DOMAIN e'[id]
       /\ \A c \in DOMAIN p : c \in DOMAIN p' /\ p'[c] = p[c]
       /\ DOMAIN p' \subseteq DOMAIN p \cup (DOMAIN e' \ DOMAIN e)
       /\ DOMAIN e' = 0..(Cardinality(DOMAIN e') - 1)
       /\ DOMAIN e' # DOMAIN e =>
             /\ HasInstr /\ Instr.kind = "CallAssign"
             /\ DOMAIN e' = DOMAIN e \cup {Cardinality(DOMAIN e)}
       /\ Len(k') = Len(k) =>
             /\ \A i \in 1..(Len(k) - 1) : k'[i] = k[i]
             /\ Len(k) > 0 => k'[Len(k)].env_id = Top.env_id
       /\ Len(k') > Len(k) =>
             /\ HasInstr /\ Instr.kind = "CallAssign"
             /\ Len(k') = Len(k) + 1
             /\ \A i \in 1..Len(k) : k'[i] = k[i]
       /\ Len(k') < Len(k) =>
             /\ HasInstr /\ Instr.kind = "Ret"
             /\ Len(k') = Len(k) - 1
             /\ \A i \in 1..(Len(k') - 1) : k'[i] = k[i]
             /\ Len(k') > 0 => k'[Len(k')].env_id = k[Len(k')].env_id]_vars

(* several calls have been made, some have returned, and a frame of a call *)
(* is on the stack: the store holds more environments than the stack has   *)
(* frames                                                                  *)
C17_Witness ==
    /\ err = "None"
    /\ Cardinality(DOMAIN e) >= 4
    /\ Cardinality(DOMAIN p) >= 3
    /\ Len(k) >= 2
    /\ Len(k) < Cardinality(DOMAIN e) - 1

(* what a caller of step and is_final observes of the state *)
Observed == <<e, p, k, err, is_final>>

(* C18: a State has one initial state, and from every state a step leads   *)
(* to one state only: no step has a second outcome that differs in e, p,   *)
(* k, the error raised or is_final.  Two States made from the same program *)
(* and stepped the same number of times are therefore in the same state.   *)
C18_Deterministic ==
    [][\A o \in {Observed'} : ~ENABLED (Next /\ Observed' # o)]_vars

(* a run has gone through a call, a test and a failed step *)
C18_Witness ==
    /\ err # "None"
    /\ Cardinality(DOMAIN e) >= 2
    /\ Len(k) >= 2

(* C19: no step changes the CTF tables, and in every state they are the    *)
(* tables get_ctfs computes from the IR of the program, so two States      *)
(* built from the same program have equal tables.                          *)
C19_CtfsImmutable ==
    [][/\ ctfs' = ctfs
       /\ ctfs' = get_ctfs(parse_pgm(Pgm(pid')))]_vars

(* steps have been taken in a program with tests and calls: a call has     *)
(* allocated an environment and a test inside it has gone the false way    *)
C19_Witness ==
    /\ last_ctf_used = "false"
    /\ Cardinality(DOMAIN e) >= 2
    /\ DOMAIN ctfs.true # {}
    /\ err = "None"
    /\ Len(k) >= 2

C25_S3FinalState ==
    [][pid = 3 =>
         /\ (HasInstr /\ Instr.kind = "While") =>
               LET i == e[GLOBAL_ENV_ID]["i"].n
                   s == e[GLOBAL_ENV_ID]["s"].n
               IN  /\ i \in 0..3
                   /\ 2 * s = i * (i - 1)
                   /\ err' = "None"
                   /\ e' = e
                   /\ i < 3 => (last_ctf_used' = "true" /\ k' = <<Context(4, 0)>>)
                   /\ i = 3 => (last_ctf_used' = "false" /\ k' = <<Context(7, 0)>>)
         /\ (HasInstr /\ Instr.kind = "Continue") =>
               /\ k' = <<Context(3, 0)>>
               /\ e[GLOBAL_ENV_ID]["i"].n \in 1..3
         /\ is_final' =>
               /\ e' = (GLOBAL_ENV_ID :> [i |-> IntV(3), s |-> IntV(3)])
               /\ p' = <<>>
               /\ k' = <<Context(7, 0)>>]_vars

(* S3 is final: the fourth test has gone the false way *)
C25_Witness ==
    /\ pid = 3
    /\ is_final
    /\ last_ctf_used = "false"
    /\ e[GLOBAL_ENV_ID] = [i |-> IntV(3), s |-> IntV(3)]

(* the lexical block lookup_env finds for the frame top *)
FrameBlock(top) == pgm.blocks[EnclLexical(pgm, pgm.stmt[top.lineno].parent)]

(* the names of the program, and one that occurs nowhere in it *)
AllNames ==
    UNION { pgm.blocks[b].locals \cup pgm.blocks[b].nonlocals
            \cup pgm.blocks[b].globals : b \in BlockIds(pgm) }
    \cup { pgm.stmt[l].var :
             l \in { t \in Lines(pgm) :
                       pgm.stmt[t].kind \in {"ExprAssign", "CallAssign"} } }
    \cup { pgm.stmt[l].func_var :
             l \in { t \in Lines(pgm) : pgm.stmt[t].kind = "Def" } }
    \cup {"nowhere"}

(* the names that resolve by the global rule in the frame top: every name  *)
(* when the frame's lexical block is the top-level one, else the names the *)
(* function body declares global (and not nonlocal as well, which is the   *)
(* ScopeConflict error)                                                    *)
GlobalNames(top) ==
    IF FrameBlock(top).parent = NoStmt THEN AllNames
    ELSE FrameBlock(top).globals \ FrameBlock(top).nonlocals

(* the variable the step about to be taken assigns through the frame f,    *)
(* which is the top frame for an assignment or a def and the caller's      *)
(* frame for a return                                                      *)
Assigns(f, var) ==
    /\ HasInstr
    /\ err' = "None"
    /\ \/ Instr.kind = "ExprAssign" /\ f = Top /\ var = Instr.var
       \/ Instr.kind = "Def" /\ f = Top /\ var = Instr.func_var
       \/ /\ Instr.kind = "Ret"
          /\ Len(k) >= 2
          /\ f = k[Len(k) - 1]
          /\ var = pgm.stmt[f.lineno].var

(* C26: in a frame on a top-level instruction every name, and in a frame   *)
(* inside a function every name its body declares global, resolves to      *)
(* environment 0, bound there or not and whatever the frame's parent chain *)
(* binds; a step that assigns such a name binds it in environment 0 and    *)
(* changes no other environment.                                           *)
C26_GlobalRule ==
    [][HasInstr =>
         /\ \A n \in GlobalNames(Top) :
               lookup_env(e, Top, n) = [ok |-> TRUE, id |-> GLOBAL_ENV_ID]
         /\ \A i \in 1..Len(k) : \A n \in GlobalNames(k[i]) :
               Assigns(k[i], n) =>
                  /\ n \in DOMAIN e'[GLOBAL_ENV_ID]
                  /\ \A id \in DOMAIN e \ {GLOBAL_ENV_ID} : e'[id] = e[id]
                  /\ DOMAIN e' = DOMAIN e]_vars

(* a function has assigned a name it declares global: the name is bound in *)
(* environment 0, an enclosing activation binds the same name to another   *)
(* value, and the function's own environment does not bind it              *)
C26_Witness ==
    /\ Len(k) >= 3
    /\ \E n \in FrameBlock(Top).globals :
          /\ n \in DOMAIN e[GLOBAL_ENV_ID]
          /\ n \notin DOMAIN e[Top.env_id]
          /\ n \in DOMAIN e[p[Top.env_id]]
          /\ p[Top.env_id] # GLOBAL_ENV_ID
          /\ e[p[Top.env_id]][n] # e[GLOBAL_ENV_ID][n]

(* the names the body of the frame top declares nonlocal and not global *)
NonlocalNames(top) ==
    IF FrameBlock(top).parent = NoStmt THEN {}
    ELSE FrameBlock(top).nonlocals \ FrameBlock(top).globals

(* the environments with var bound in env id as well *)
AlsoBound(envs, id, var) ==
    [envs EXCEPT ![id] = Bind(@, var, IntV(0))]

(* the environments strictly after the frame's own in its parent chain     *)
(* that bind var, as positions of the chain                                *)
EnclosingWith(envs, top, var) ==
    { j \in 2..Len(get_parent_chain(top)) :
        var \in DOMAIN envs[get_parent_chain(top)[j]] }

(* C27: in a frame whose function body declares n nonlocal, lookup_env     *)
(* never answers with the frame's own environment, not even when that      *)
(* environment binds n; when it answers, the answer is the first            *)
(* environment binding n on the walk that starts at the parent of the      *)
(* frame's environment, and it does answer when an environment between the *)
(* frame's own and environment 0 binds n; an assignment to n changes that  *)
(* environment only.                                                       *)
C27_NonlocalRule ==
    [][HasInstr =>
         \A n \in NonlocalNames(Top) :
            LET chain == get_parent_chain(Top)
                own == AlsoBound(e, Top.env_id, n)
                r == lookup_env(e, Top, n)
                ro == lookup_env(own, Top, n)
                encl == EnclosingWith(e, Top, n)
            IN  /\ ro = r
                /\ r.ok => /\ r.id # Top.env_id
                           /\ \E j \in encl :
                                 /\ r.id = chain[j]
                                 /\ \A i \in encl : j <= i
                /\ (\E j \in encl : j < Len(chain)) => r.ok
                /\ Assigns(Top, n) =>
                      /\ r.ok
                      /\ n \in DOMAIN e'[r.id]
                      /\ \A id \in DOMAIN e \ {r.id} : e'[id] = e[id]
                      /\ DOMAIN e' = DOMAIN e]_vars

(* a function has assigned a name it declares nonlocal: its own            *)
(* environment and its parent's do not bind the name, the parent's parent  *)
(* holds the value written                                                 *)
C27_Witness ==
    /\ HasInstr
    /\ Instr.kind = "Ret"
    /\ \E n \in NonlocalNames(Top) :
          /\ n \notin DOMAIN e[Top.env_id]
          /\ n \notin DOMAIN e[p[Top.env_id]]
          /\ p[Top.env_id] \in DOMAIN p
          /\ p[p[Top.env_id]] # GLOBAL_ENV_ID
          /\ n \in DOMAIN e[p[p[Top.env_id]]]
          /\ e[p[p[Top.env_id]]][n] = IntV(2)

(* the names that resolve by the default rule in the frame top *)
DefaultNames(top) ==
    IF FrameBlock(top).parent = NoStmt THEN {}
    ELSE AllNames \ (FrameBlock(top).nonlocals \cup FrameBlock(top).globals)

(* the environments of the frame's parent chain, its own included, that    *)
(* bind var, as positions of the chain                                     *)
ChainWith(envs, top, var) ==
    { j \in 1..Len(get_parent_chain(top)) :
        var \in DOMAIN envs[get_parent_chain(top)[j]] }

WhilesAround(P, s) ==
    { w \in Lines(P) : /\ P.stmt[w].kind = "While"
                       /\ w < s
                       /\ s <= StmtLast(P, w) }

(* the line reached when statement s is left: its next sibling, else what  *)
(* follows the statement that holds its block, else the terminal sentinel  *)
Following(P, s) ==
    LET after[stmt \in Lines(P)] ==
            LET block == P.blocks[P.stmt[stmt].parent]
            IN  IF P.stmt[stmt].idx < Len(block.stmts)
                THEN block.stmts[P.stmt[stmt].idx + 1]
                ELSE IF block.parent = NoStmt
                THEN BlockLast(P, TopBlock) + 1
                ELSE after[block.parent]
    IN  after[s]

(* C29: for every break, encl_while is the innermost while statement       *)
(* around it, and next[break line] is the line control reaches when that   *)
(* loop exits, which is false[test line of that loop]; it is not the test  *)
(* line of that loop nor of any loop around it.                            *)
C29_BreakLeavesInnermostLoop ==
    \A b \in { l \in Lines(pgm) : pgm.stmt[l].kind = "Break" } :
       LET w == encl_while(pgm, b)
       IN  /\ w \in WhilesAround(pgm, b)
           /\ \A o \in WhilesAround(pgm, b) : o <= w
           /\ ctfs.next[b] = ctfs.false[w]
           /\ ctfs.next[b] = Following(pgm, w)
           /\ ctfs.next[b] \notin WhilesAround(pgm, b)

(* C30: a step on a while test that evaluates to false moves the program   *)
(* counter to the line that follows the while statement, which is not the  *)
(* test line itself.                                                       *)
C30_WhileFalseLeavesLoop ==
    [][(HasInstr /\ Instr.kind = "While" /\ err' = "None"
          /\ last_ctf_used' = "false") =>
         /\ k'[Len(k')].lineno = Following(pgm, Top.lineno)
         /\ k'[Len(k')].lineno # Top.lineno
         /\ ctfs.false[Top.lineno] = k'[Len(k')].lineno]_vars

(* is_final, of the State object s *)
Finished(s) ==
    /\ s.k # <<>>
    /\ s.k[Len(s.k)].lineno \in DOMAIN s.ctfs.next
    /\ s.ctfs.next[s.k[Len(s.k)].lineno] = s.k[Len(s.k)].lineno

(* C21: a request leaves every session other than the one it names as it   *)
(* was: the session stays registered, with the same State, hence the same  *)
(* snapshot (e, p, k, ctfs) and the same finished status; a create request *)
(* names no session that exists.                                           *)
C21_SessionsIsolated ==
    [][\A b \in DOMAIN Sessions :
          (resp'.op = "create" \/ resp'.sid # b) =>
             /\ b \in DOMAIN Sessions'
             /\ Sessions'[b] = Sessions[b]
             /\ as_dict(Sessions'[b]) = as_dict(Sessions[b])
             /\ Finished(Sessions'[b]) = Finished(Sessions[b])]_vars

(* a step on one session has been answered while another session, created *)
(* from the same program, is at another line                               *)
C21_Witness ==
    /\ resp.op = "step"
    /\ resp.status = 200
    /\ \E b \in DOMAIN Sessions :
          /\ resp.sid \in DOMAIN Sessions
          /\ b # resp.sid
          /\ Sessions[b].pid = Sessions[resp.sid].pid
          /\ Sessions[b].k # Sessions[resp.sid].k
          /\ Sessions[b].e # Sessions[resp.sid].e

(* C22: a step request answered with an error leaves the snapshot of its   *)
(* session as it was, so that no later get-state shows a step applied in   *)
(* part; the snapshot a step or a get-state request returns is that of the *)
(* session's State after the request, and a get-state changes nothing.     *)
C22_StepAtomic ==
    [][/\ (resp'.op = "step" /\ resp'.status = 500) =>
             /\ resp'.sid \in DOMAIN Sessions
             /\ resp'.sid \in DOMAIN Sessions'
             /\ as_dict(Sessions'[resp'.sid]) = as_dict(Sessions[resp'.sid])
       /\ (resp'.op \in {"step", "get"} /\ resp'.status = 200) =>
             /\ resp'.sid \in DOMAIN Sessions'
             /\ resp'.state = as_dict(Sessions'[resp'.sid])
       /\ resp'.op = "get" => Sessions' = Sessions]_vars

(* C23: a create or a reset request whose program does not build is        *)
(* answered with a 4xx status, and a step request that fails with a 5xx    *)
(* status.                                                                 *)
C23_ErrorClassification ==
    /\ resp.op \in {"create", "reset"} =>
          resp.status = 200 \/ resp.status \in 400..499
    /\ resp.op = "step" =>
          resp.status \in {200, 404} \/ resp.status \in 500..599

(* C24: a create or a reset request whose program does not build leaves    *)
(* the registry as it was: no session id is added or given out, and the    *)
(* session a reset names keeps its State.                                  *)
C24_FailedBuildKeepsRegistry ==
    [][(resp'.op \in {"create", "reset"} /\ resp'.status \in {400, 500}) =>
          /\ Sessions' = Sessions
          /\ issued' = issued]_vars

(* a reset with a program that does not build has been answered, and the   *)
(* session it names is still at the line it had been stepped to            *)
C24_Witness ==
    /\ resp.op = "reset"
    /\ resp.status \in {400, 500}
    /\ resp.sid \in DOMAIN Sessions
    /\ Sessions[resp.sid].k # <<>>
    /\ Sessions[resp.sid].k[1].lineno = 2
    /\ "x" \in DOMAIN Sessions[resp.sid].e[GLOBAL_ENV_ID]

(* the if statements that are the last statement of their block *)
LastIfs(P) ==
    { s \in Lines(P) :
        /\ P.stmt[s].kind = "If"
        /\ P.stmt[s].idx = Len(P.blocks[P.stmt[s].parent].stmts) }

(* the last statement of block b, when it is a leaf that has a next entry  *)
(* of its own kind (not a return, a break or a continue)                   *)
LastLeaf(P, b) ==
    LET s == P.blocks[b].stmts[Len(P.blocks[b].stmts)]
    IN  IF P.stmt[s].kind \in {"Pass", "ExprAssign", "CallAssign", "Global",
                               "Nonlocal"}
        THEN {s} ELSE {}

(* C31: for an if statement that is the last statement of its block, the   *)
(* next entry of the last leaf statement of each branch is the line that   *)
(* follows the if statement (what follows the enclosing statement, or the  *)
(* terminal sentinel at top level) and is not the test line of that if.    *)
C31_LastIfClimbsOut ==
    \A s \in LastIfs(pgm) :
       \A l \in LastLeaf(pgm, pgm.stmt[s].if_block)
                \cup LastLeaf(pgm, pgm.stmt[s].else_block) :
          /\ ctfs.next[l] = Following(pgm, s)
          /\ ctfs.next[l] # s

(* the def statements whose body, at any depth, holds line l *)
DefsAround(P, l) ==
    { d \in Lines(P) : /\ P.stmt[d].kind = "Def"
                       /\ d < l
                       /\ l <= StmtLast(P, d) }

(* the innermost def statement whose body holds line l; NoStmt for a line  *)
(* of the top level and for the terminal sentinel                          *)
EnclDef(P, l) ==
    IF DefsAround(P, l) = {} THEN NoStmt
    ELSE CHOOSE d \in DefsAround(P, l) : \A o \in DefsAround(P, l) : o <= d

(* C32: a Def step binds the closure in the environment the name resolves  *)
(* to and moves the program counter to the line that follows the whole def *)
(* statement, not into the body.  The line of a frame changes function     *)
(* body in no step; a frame is added only by a CallAssign, at the entry    *)
(* line of the closure it calls, and removed only by a Ret.                *)
C32_DefSkipsBody ==
    [][/\ (HasInstr /\ Instr.kind = "Def" /\ err' = "None") =>
             /\ Len(k') = Len(k)
             /\ k'[Len(k')].lineno = Following(pgm, Top.lineno)
             /\ Top.lineno \notin DefsAround(pgm, k'[Len(k')].lineno)
             /\ \E id \in DOMAIN e' :
                   /\ Instr.func_var \in DOMAIN e'[id]
                   /\ e'[id][Instr.func_var] = DefClosure(Instr, Top)
       /\ \A i \in 1..Len(k) :
             i <= Len(k') =>
                /\ k'[i].env_id = k[i].env_id
                /\ EnclDef(pgm, k'[i].lineno) = EnclDef(pgm, k[i].lineno)
       /\ Len(k') > Len(k) =>
             /\ HasInstr /\ Instr.kind = "CallAssign"
             /\ Len(k') = Len(k) + 1
             /\ LET c == lookup_val(e, Top, Instr.func_var)
                IN  /\ c.ok
                    /\ c.val.t = "Closure"
                    /\ k'[Len(k')].lineno = c.val.lineno
                    /\ EnclDef(pgm, c.val.lineno) # NoStmt
                    /\ c.val.lineno =
                          BlockFirst(pgm, pgm.stmt[EnclDef(pgm, c.val.lineno)].block)
       /\ Len(k') < Len(k) =>
             /\ HasInstr /\ Instr.kind = "Ret"
             /\ Len(k') = Len(k) - 1]_vars

(* the callee of the CallAssign under the pc resolves to a value *)
CalleeFound ==
    /\ HasInstr
    /\ Instr.kind = "CallAssign"
    /\ lookup_val(e, Top, Instr.func_var).ok

Callee == lookup_val(e, Top, Instr.func_var).val

(* C33: a CallAssign whose callee is not a closure fails as not callable   *)
(* (ValueError), and one whose argument count differs from the closure's   *)
(* number of formals fails on arity (TypeError); either way envs, parent   *)
(* map and continuation are exactly as before the step.                    *)
C33_CalleeChecksBeforeAlloc ==
    [][/\ (CalleeFound /\ ~IsClosure(Callee)) =>
             (err' = "ValueError" /\ e' = e /\ p' = p /\ k' = k)
       /\ (/\ CalleeFound
           /\ IsClosure(Callee)
           /\ Len(Instr.func_args) # Len(Callee.formals)) =>
             (err' = "TypeError" /\ e' = e /\ p' = p /\ k' = k)]_vars

(* the arity check has failed on a closure, after the same check failed on *)
(* nothing: the step left the pc on the call                               *)
C33_Witness ==
    /\ err = "TypeError"
    /\ CalleeFound
    /\ IsClosure(Callee)
    /\ Len(Instr.func_args) # Len(Callee.formals)
    /\ Cardinality(DOMAIN e) = 1

C33_WitnessNotCallable ==
    /\ err = "ValueError"
    /\ CalleeFound
    /\ ~IsClosure(Callee)

(* C34: for every program the IR builder accepts, distinct instructions    *)
(* have distinct lines, so that looking up the line of any instruction in  *)
(* the instruction index returns that very instruction.                    *)
C34_IndexInjective ==
    instr_map.ok =>
       /\ \A i, j \in 1..Len(body) :
             i # j => body[i].lineno # body[j].lineno
       /\ \A i \in 1..Len(body) :
             instr_map.val[body[i].lineno] = first_instr(body, i)

(* a request on session sid is answered in the step *)
Answered(sid) ==
    /\ resp' # resp
    /\ resp'.op \in {"step", "get", "reset", "delete"}
    /\ resp'.sid = sid

(* C35: a delete that succeeds removes the session; a step, get-state,     *)
(* reset or delete request on an id that is not registered, because it was *)
(* deleted or never created, is answered 404 and changes no session; and   *)
(* an unregistered id becomes registered only when create gives it out for *)
(* the first time, never by a reset and never again after its delete.      *)
C35_GoneStaysGone ==
    [][/\ \A sid \in SessionIds :
             sid \notin DOMAIN Sessions =>
                /\ Answered(sid) =>
                      (resp'.status = 404 /\ Sessions' = Sessions)
                /\ sid \in DOMAIN Sessions' =>
                      /\ resp'.op = "create"
                      /\ resp'.sid = sid
                      /\ sid > issued
       /\ \A sid \in SessionIds :
             (Answered(sid) /\ resp'.op = "delete" /\ resp'.status = 200) =>
                (sid \in DOMAIN Sessions /\ sid \notin DOMAIN Sessions')]_vars

(* a reset has been answered 404 for a session that was created and        *)
(* deleted, while another session is registered                            *)
C35_Witness ==
    /\ resp.op = "reset"
    /\ resp.status = 404
    /\ resp.sid <= issued
    /\ resp.sid \notin DOMAIN Sessions
    /\ DOMAIN Sessions # {}

(* a step has been answered 404 for an id that was never given out *)
C35_WitnessNeverCreated ==
    /\ resp.op = "step"
    /\ resp.status = 404
    /\ resp.sid > issued

(* the snapshot of a State just made for the program of the State s *)
InitialSnapshot(s) ==
    [e |-> (GLOBAL_ENV_ID :> <<>>),
     p |-> <<>>,
     k |-> <<Context(BlockFirst(s.pgm, TopBlock), GLOBAL_ENV_ID)>>,
     ctfs |-> s.ctfs]

(* a reset of session sid that keeps its program is answered 200 in the    *)
(* step                                                                    *)
ResetKeepingProgram(sid) ==
    /\ resp' # resp
    /\ resp'.op = "reset"
    /\ resp'.status = 200
    /\ resp'.sid = sid
    /\ sid \in DOMAIN Sessions
    /\ sid \in DOMAIN Sessions'
    /\ Sessions'[sid].pgm = Sessions[sid].pgm

(* C36: the snapshot a create returns has envs {0: {}}, an empty parent    *)
(* map, one frame at the first top-level line with env 0 and the ctfs of   *)
(* the program; the ctfs of a session change only with its program; and a  *)
(* reset that keeps the program, after any steps, leaves under the same id *)
(* a State whose snapshot is that initial snapshot, and returns it.        *)
C36_ResetRoundTrip ==
    [][/\ (resp' # resp /\ resp'.op = "create" /\ resp'.status = 200) =>
             /\ resp'.sid \in DOMAIN Sessions'
             /\ resp'.state = InitialSnapshot(Sessions'[resp'.sid])
       /\ \A sid \in DOMAIN Sessions \cap DOMAIN Sessions' :
             Sessions'[sid].pgm = Sessions[sid].pgm =>
                Sessions'[sid].ctfs = Sessions[sid].ctfs
       /\ \A sid \in SessionIds :
             ResetKeepingProgram(sid) =>
                /\ as_dict(Sessions'[sid]) = InitialSnapshot(Sessions[sid])
                /\ resp'.state = InitialSnapshot(Sessions[sid])
                /\ DOMAIN Sessions' = DOMAIN Sessions]_vars

(* a reset has been answered with the initial snapshot, for a registered   *)
(* session of the program with a return at top level                       *)
C36_Witness ==
    /\ resp.op = "reset"
    /\ resp.status = 200
    /\ resp.sid \in DOMAIN Sessions
    /\ resp.state = as_dict(Sessions[resp.sid])
    /\ resp.state = InitialSnapshot(Sessions[resp.sid])
    /\ Sessions[resp.sid].pid = 11

(* the terminal sentinel of the tables of P: the line after the last one *)
Sentinel(P) == BlockLast(P, TopBlock) + 1

(* the values of the three tables are lines of instructions, or the        *)
(* sentinel                                                                *)
TablesClosed ==
    \A t \in {"next", "true", "false"} :
       \A l \in DOMAIN ctfs[t] :
          ctfs[t][l] = Sentinel(pgm) \/ ctfs[t][l] \in Lines(pgm)

(* the tables have an entry for the edge the instruction under the pc      *)
(* selects: next, true and false of its line, and for a Ret next of the    *)
(* caller's line when there is a caller                                    *)
EdgeFound ==
    CASE Instr.kind \in {"If", "While"} ->
            Top.lineno \in DOMAIN ctfs.true \cap DOMAIN ctfs.false
      [] Instr.kind = "CallAssign" -> TRUE
      [] Instr.kind = "Ret" ->
            Len(k) >= 2 => k[Len(k) - 1].lineno \in DOMAIN ctfs.next
      [] OTHER -> Top.lineno \in DOMAIN ctfs.next

(* C37: every value of the next, true and false tables is the terminal     *)
(* sentinel or the line of an instruction, and in every reachable state    *)
(* that is not final, step finds an instruction for the line of the top    *)
(* frame and a table entry for the edge it selects.                        *)
C37_NoIndexOrTableMiss ==
    /\ TablesClosed
    /\ ~is_final => (HasInstr /\ EdgeFound)

(* the positions of the parent chain of the frame top strictly between its *)
(* own environment and the last one                                        *)
Between(top) == 2..(Len(get_parent_chain(top)) - 1)

(* C38: in a frame whose function body declares n nonlocal, lookup_env     *)
(* never answers with the global environment 0: its answer is an           *)
(* environment strictly between the frame's own and environment 0 in the   *)
(* parent chain, whether environment 0 binds n or not; when none of those  *)
(* binds n the lookup fails with LookupError, and so does the step that    *)
(* assigns n, which changes no environment.                                *)
C38_NonlocalNeverGlobal ==
    [][HasInstr =>
         \A n \in NonlocalNames(Top) :
            LET chain == get_parent_chain(Top)
                r == lookup_env(e, Top, n)
                rg == lookup_env(AlsoBound(e, GLOBAL_ENV_ID, n), Top, n)
            IN  /\ chain[Len(chain)] = GLOBAL_ENV_ID
                /\ rg = r
                /\ r.ok => /\ r.id # GLOBAL_ENV_ID
                           /\ \E j \in Between(Top) :
                                 r.id = chain[j] /\ n \in DOMAIN e[r.id]
                /\ (\A j \in Between(Top) : n \notin DOMAIN e[chain[j]]) =>
                      /\ r = Raise("LookupError")
                      /\ (Instr.kind = "ExprAssign" /\ Instr.var = n) =>
                            (err' = "LookupError" /\ e' = e)]_vars

(* the assignment to a nonlocal name has failed with LookupError in a      *)
(* function called from the top level, while environment 0 binds the name  *)
C38_Witness ==
    /\ err = "LookupError"
    /\ HasInstr
    /\ Instr.kind = "ExprAssign"
    /\ Instr.var \in NonlocalNames(Top)
    /\ Top.env_id # GLOBAL_ENV_ID
    /\ get_parent_chain(Top) = <<Top.env_id, GLOBAL_ENV_ID>>
    /\ Instr.var \in DOMAIN e[GLOBAL_ENV_ID]
    /\ e[GLOBAL_ENV_ID][Instr.var] = IntV(1)

(* C39: the dict as_dict returned is independent of the State: after any   *)
(* later steps its fields e, p and k still show what they showed when it   *)
(* was returned.                                                           *)
C39_SnapshotIndependent ==
    held.taken =>
       /\ Seen.e = held.was.e
       /\ Seen.p = held.was.p
       /\ Seen.k = held.was.k

====
